---- MODULE Spec2Model ----
(***************************************************************************)
(* State-machine model of the chat client: the session store, the         *)
(* completion orchestrator and the stream decoder.                         *)
(*                                                                         *)
(* The repository holds two snapshots of the application:                  *)
(*   src/src/app.rs  (with models.rs, services/, components/): "app"       *)
(*   src/src/lib.rs  (the single-file revision):                 "lib"     *)
(* Both are modelled; the variable `build` says which one is running.      *)
(*                                                                         *)
(* Strings are sequences of symbols.  A byte stream is a sequence of byte  *)
(* units: a unit is either one byte ("\n", " ", "a", "b", the two bytes    *)
(* "C3" "A9" of the UTF-8 encoding of e-acute) or a fixed run of ASCII     *)
(* bytes the decoder only ever handles as a whole ("data: ", "[DONE]",     *)
(* the JSON punctuation of a record).  Splitting a chunk inside such a     *)
(* run has the effect of splitting at its edge, because ASCII decodes      *)
(* byte by byte and the buffer joins the pieces before any line is cut.    *)
(*                                                                         *)
(* A yew state handle dereferences to the value it had in the render that  *)
(* created it; set() changes the stored state, not the handle.  A handler  *)
(* therefore reads the current state, and an async task keeps reading the  *)
(* value its handle had when the handler that spawned it ran (`snap`).     *)
(***************************************************************************)
EXTENDS Integers, Sequences, FiniteSets, TLC

VARIABLES
    build,               \* "app" | "lib": which snapshot runs
    chats,               \* use_state Vec<ChatSession>
    active_chat_id,      \* use_state String
    settings,            \* use_state AppSettings
    is_loading,          \* use_state bool
    cancellation_token,  \* Arc<AtomicBool>, one per application
    tasks,               \* spawn_local'ed completion tasks (a sequence of records)
    title_check_queue,   \* lib: use_state Option<String>
    title_tasks,         \* lib: spawn_local'ed title generations
    nextUuid,            \* source of Uuid::new_v4()
    wire,                \* what the server answers: the streams it may send
    lineChunks,          \* TRUE: the server flushes whole lines only
    editing_index,       \* lib: use_state Option<usize>, -1 for None
    edit_buffer,         \* lib: use_state String
    cleared,             \* observer: the last step was a confirmed clearAll
    documents,           \* localStorage documents_v1: Vec<Document>
    local_storage,       \* localStorage llm_chats_v2 and chat_settings_v1 (JSON)
    set_item,            \* the result of the last set_item of each of the two keys
    quota                \* "ok": set_item succeeds; "flaky": it may fail

vars == <<build, chats, active_chat_id, settings, is_loading, cancellation_token,
          tasks, title_check_queue, title_tasks, nextUuid, wire, lineChunks,
          editing_index, edit_buffer, cleared, documents, local_storage, set_item,
          quota>>

\* what no action changes: the snapshot that runs and the server's behaviour
env == <<build, wire, lineChunks, documents, quota>>

\* the state only lib.rs has
libState == <<title_check_queue, title_tasks, editing_index, edit_buffer>>

----------------------------------------------------------------------------
\* Bounds of the model

\* lines per byte stream, in the decoder specification
MaxLines == 2
\* completions started in one behaviour
MaxTasks == 2
\* sessions created in one behaviour (calls of Uuid::new_v4)
MaxUuid == 3
\* sessions of the streams specification
MaxStreamUuid == 2
\* completions and sessions of the titles specification
MaxTitleTasks == 3
MaxTitleUuid == 2

----------------------------------------------------------------------------
\* Strings

NewChatTitle == <<"N", "e", "w", " ", "C", "h", "a", "t">>
HelpfulAssistant == <<"helpful">>
HelpfulAssistantDot == <<"helpful", ".">>
OtherPrompt == <<"pirate">>

None == "None"

MessageMetricsDefault ==
    [usage |-> None, timings |-> None, created |-> None, id |-> None,
     model |-> None, system_fingerprint |-> None]

Message(role, content) ==
    [role |-> role, content |-> content, metrics |-> MessageMetricsDefault]

\* a session that always starts from the default prompt
ChatSessionDefaultPrompt(uuid, system_prompt) ==
    [id |-> uuid, title |-> NewChatTitle,
     messages |-> <<Message("system", HelpfulAssistantDot)>>]

ChatSessionNew(uuid, system_prompt) ==
    [id |-> uuid, title |-> NewChatTitle,
     messages |-> <<Message("system", system_prompt)>>]

LocalhostUrl == <<"http://localhost:8080">>

AppSettingsDefault ==
    [system_prompt |-> HelpfulAssistantDot, base_url |-> LocalhostUrl,
     selected_model |-> "default", stream_enabled |-> TRUE, saved_prompts |-> <<>>,
     document_context_mode |-> "RAG", show_metrics |-> TRUE]

----------------------------------------------------------------------------
\* serde_json and the storage (services/storage.rs)

\* JSON values: a kind and what it holds; a JSON string holds text as a
\* sequence, an object is a function from its keys to values
JNull == [kind |-> "null", v |-> "null"]
JStr(text) == [kind |-> "string", v |-> text]
JBool(b) == [kind |-> "bool", v |-> b]
JArr(elems) == [kind |-> "array", v |-> elems]
JObj(fields) == [kind |-> "object", v |-> fields]

\* storage.get_item(key) returns None
NoItem == [kind |-> "absent", v |-> "absent"]

\* Option<T> of a parse
NoValue == [some |-> FALSE]
SomeValue(x) == [some |-> TRUE, val |-> x]

is_kind(o, key, kind) == key \in DOMAIN o /\ o[key].kind = kind

\* the variants under their Rust names
mode_to_json_unrenamed(mode) == JStr(<<mode>>)

\* #[serde(rename = "manual")] Manual, RAG
mode_to_json(mode) == JStr(IF mode = "Manual" THEN <<"manual">> ELSE <<"RAG">>)

\* a SavedPrompt {id, name, content}
saved_prompt_to_json(sp) ==
    JObj([id |-> JStr(<<sp.id>>), name |-> JStr(sp.name), content |-> JStr(sp.content)])

\* serde_json::to_string(&settings): models.rs AppSettings has seven fields,
\* the AppSettings of lib.rs the first four
to_string_AppSettings(s) ==
    LET four == [system_prompt |-> JStr(s.system_prompt), base_url |-> JStr(s.base_url),
                 selected_model |-> JStr(<<s.selected_model>>),
                 stream_enabled |-> JBool(s.stream_enabled)]
    IN  IF build = "lib" THEN JObj(four)
        ELSE JObj([system_prompt |-> four.system_prompt, base_url |-> four.base_url,
                   selected_model |-> four.selected_model,
                   stream_enabled |-> four.stream_enabled,
                   saved_prompts |-> JArr([n \in 1..Len(s.saved_prompts) |->
                                             saved_prompt_to_json(s.saved_prompts[n])]),
                   document_context_mode |-> mode_to_json(s.document_context_mode),
                   show_metrics |-> JBool(s.show_metrics)])

\* Deserialize of SavedPrompt: every field is required
saved_prompt_ok(j) ==
    /\ j.kind = "object"
    /\ is_kind(j.v, "id", "string") /\ Len(j.v.id.v) = 1
    /\ is_kind(j.v, "name", "string")
    /\ is_kind(j.v, "content", "string")

\* serde_json::from_str::<AppSettings>(json).ok(): a field without
\* #[serde(default)] is required, a field with it takes Default::default()
\* of its type when the key is missing, a value of the wrong type or an
\* unknown variant is an error; unknown keys are skipped
from_str_AppSettings(json) ==
    IF json.kind # "object" THEN NoValue
    ELSE LET o == json.v
             required == /\ is_kind(o, "system_prompt", "string")
                         /\ is_kind(o, "base_url", "string")
                         /\ is_kind(o, "selected_model", "string")
                         /\ Len(o.selected_model.v) = 1
                         /\ is_kind(o, "stream_enabled", "bool")
             prompts_ok == "saved_prompts" \in DOMAIN o =>
                              /\ o.saved_prompts.kind = "array"
                              /\ \A n \in 1..Len(o.saved_prompts.v) :
                                     saved_prompt_ok(o.saved_prompts.v[n])
             mode_ok == "document_context_mode" \in DOMAIN o =>
                              /\ o.document_context_mode.kind = "string"
                              /\ o.document_context_mode.v \in {<<"manual">>, <<"RAG">>}
             show_metrics_ok == "show_metrics" \in DOMAIN o => o.show_metrics.kind = "bool"
         IN  IF ~required THEN NoValue
             ELSE IF build = "lib"
             THEN SomeValue([AppSettingsDefault EXCEPT
                               !.system_prompt = o.system_prompt.v,
                               !.base_url = o.base_url.v,
                               !.selected_model = o.selected_model.v[1],
                               !.stream_enabled = o.stream_enabled.v])
             ELSE IF ~(prompts_ok /\ mode_ok /\ show_metrics_ok) THEN NoValue
             ELSE SomeValue(
                 [system_prompt |-> o.system_prompt.v,
                  base_url |-> o.base_url.v,
                  selected_model |-> o.selected_model.v[1],
                  stream_enabled |-> o.stream_enabled.v,
                  saved_prompts |->
                      IF "saved_prompts" \in DOMAIN o
                      THEN [n \in 1..Len(o.saved_prompts.v) |->
                              [id |-> o.saved_prompts.v[n].v.id.v[1],
                               name |-> o.saved_prompts.v[n].v.name.v,
                               content |-> o.saved_prompts.v[n].v.content.v]]
                      ELSE <<>>,
                  document_context_mode |->
                      IF "document_context_mode" \in DOMAIN o
                      THEN (IF o.document_context_mode.v = <<"manual">> THEN "Manual"
                            ELSE "RAG")
                      ELSE "RAG",
                  show_metrics |->
                      IF "show_metrics" \in DOMAIN o THEN o.show_metrics.v ELSE FALSE])

\* Option<..> fields of MessageMetrics: None is null
metrics_to_json(m) ==
    JObj([f \in DOMAIN m |-> IF m[f] = None THEN JNull ELSE JStr(<<m[f]>>)])

message_to_json(m) ==
    JObj([role |-> JStr(<<m.role>>), content |-> JStr(m.content),
          metrics |-> metrics_to_json(m.metrics)])

\* serde_json::to_string(&chats)
to_string_chats(list) ==
    JArr([i \in 1..Len(list) |->
            JObj([id |-> JStr(<<list[i].id>>), title |-> JStr(list[i].title),
                  messages |-> JArr([n \in 1..Len(list[i].messages) |->
                                       message_to_json(list[i].messages[n])])])])

metrics_ok(j) ==
    /\ j.kind = "object"
    /\ \A f \in DOMAIN j.v : j.v[f].kind \in {"null", "string"}

metrics_from_json(j) ==
    [f \in DOMAIN MessageMetricsDefault |->
        IF f \in DOMAIN j.v /\ j.v[f].kind = "string" THEN j.v[f].v[1] ELSE None]

message_ok(j) ==
    /\ j.kind = "object"
    /\ is_kind(j.v, "role", "string") /\ Len(j.v.role.v) = 1
    /\ is_kind(j.v, "content", "string")
    /\ "metrics" \in DOMAIN j.v => metrics_ok(j.v.metrics)

\* Message: #[serde(default)] metrics
message_from_json(j) ==
    [role |-> j.v.role.v[1], content |-> j.v.content.v,
     metrics |-> IF "metrics" \in DOMAIN j.v THEN metrics_from_json(j.v.metrics)
                 ELSE MessageMetricsDefault]

session_ok(j) ==
    /\ j.kind = "object"
    /\ is_kind(j.v, "id", "string") /\ Len(j.v.id.v) = 1
    /\ is_kind(j.v, "title", "string")
    /\ is_kind(j.v, "messages", "array")
    /\ \A n \in 1..Len(j.v.messages.v) : message_ok(j.v.messages.v[n])

\* serde_json::from_str::<Vec<ChatSession>>(json).ok()
from_str_chats(json) ==
    IF json.kind # "array" THEN NoValue
    ELSE IF \E i \in 1..Len(json.v) : ~session_ok(json.v[i]) THEN NoValue
    ELSE SomeValue([i \in 1..Len(json.v) |->
                      [id |-> json.v[i].v.id.v[1], title |-> json.v[i].v.title.v,
                       messages |-> [n \in 1..Len(json.v[i].v.messages.v) |->
                                       message_from_json(json.v[i].v.messages.v[n])]]])

\* storage.set_item(key, &json): the results it can have
set_item_results == IF quota = "ok" THEN {TRUE} ELSE BOOLEAN

\* LocalStorage::set for the two keys: a write that fails is dropped
\* (`let _ = storage.set_item(..)`), the entry keeps what it held
local_storage_set(write_chats, ok_chats, write_settings, ok_settings) ==
    /\ local_storage' =
          [chats |-> IF write_chats /\ ok_chats THEN to_string_chats(chats')
                     ELSE local_storage.chats,
           settings |-> IF write_settings /\ ok_settings
                        THEN to_string_AppSettings(settings')
                        ELSE local_storage.settings]
    /\ set_item' =
          [chats |-> IF ~write_chats THEN set_item.chats
                     ELSE IF ok_chats THEN "ok" ELSE "failed",
           settings |-> IF ~write_settings THEN set_item.settings
                        ELSE IF ok_settings THEN "ok" ELSE "failed"]

\* the two persistence effects with every write dropped
persist_never ==
    local_storage_set(FALSE, TRUE, FALSE, TRUE)

\* the persistence effects of the render that follows a handler or a task
\* step: use_effect_with(chats, ..) and use_effect_with(settings, ..) run
\* when the value they depend on differs from that of the render before
persist ==
    \E ok_chats \in (IF chats' # chats THEN set_item_results ELSE {TRUE}),
       ok_settings \in (IF settings' # settings THEN set_item_results ELSE {TRUE}) :
        local_storage_set(chats' # chats, ok_chats, settings' # settings, ok_settings)

\* the effects of the first render: both run
persist_on_mount ==
    \E ok_chats \in set_item_results, ok_settings \in set_item_results :
        local_storage_set(TRUE, ok_chats, TRUE, ok_settings)

----------------------------------------------------------------------------
\* The stream decoder

Min(a, b) == IF a < b THEN a ELSE b

\* the characters a delta may carry once decoded
TextChars == {"a", "b", "c", "x", "e_acute", "U+FFFD"}

\* String::from_utf8_lossy on one chunk: a complete C3 A9 pair is one
\* character; a lead byte without its continuation, and a continuation byte
\* without its lead, each become one U+FFFD.
RECURSIVE from_utf8_lossy(_)
from_utf8_lossy(bytes) ==
    IF bytes = <<>> THEN <<>>
    ELSE IF Head(bytes) = "C3"
         THEN IF Len(bytes) >= 2 /\ bytes[2] = "A9"
              THEN <<"e_acute">> \o from_utf8_lossy(SubSeq(bytes, 3, Len(bytes)))
              ELSE <<"U+FFFD">> \o from_utf8_lossy(Tail(bytes))
         ELSE IF Head(bytes) = "A9"
              THEN <<"U+FFFD">> \o from_utf8_lossy(Tail(bytes))
              ELSE <<Head(bytes)>> \o from_utf8_lossy(Tail(bytes))

\* str::find: the index of the first occurrence, 0 for None
find(s, c) ==
    IF \E i \in 1..Len(s) : s[i] = c
    THEN CHOOSE i \in 1..Len(s) : s[i] = c /\ \A j \in 1..(i - 1) : s[j] # c
    ELSE 0

\* str::trim
RECURSIVE trim_start(_)
trim_start(s) ==
    IF s # <<>> /\ Head(s) = " " THEN trim_start(Tail(s)) ELSE s

RECURSIVE trim_end(_)
trim_end(s) ==
    IF s # <<>> /\ s[Len(s)] = " " THEN trim_end(SubSeq(s, 1, Len(s) - 1)) ELSE s

trim(s) == trim_end(trim_start(s))

\* str::starts_with("data: ")
starts_with_data(line) == line # <<>> /\ Head(line) = "data: "

NoContent == [some |-> FALSE, val |-> <<>>]
SomeContent(txt) == [some |-> TRUE, val |-> txt]

ParseError ==
    [ok |-> FALSE, choices |-> <<>>, id |-> None, created |-> None, model |-> None,
     system_fingerprint |-> None, usage |-> None, timings |-> None]

\* serde_json::from_str::<StreamResponse>: the record shapes of the model are
\*   {c: <text> }   choices[0].delta.content = text, no other field
\*   {m}            choices[0].delta = {}, and id, created, model,
\*                  system_fingerprint, usage, timings all present
\*   {t}            choices[0].delta = {}, and timings only
\*   {}             choices = []
\* anything else is a parse error; white space around the value is skipped.
from_str_StreamResponse(json_str) ==
    LET s == trim(json_str) IN
    IF s = <<"{}">> THEN [ParseError EXCEPT !.ok = TRUE]
    ELSE IF s = <<"{m}">>
    THEN [ok |-> TRUE, choices |-> <<NoContent>>, id |-> "id1", created |-> "cr1",
          model |-> "mo1", system_fingerprint |-> "fp1", usage |-> "us1",
          timings |-> "ti1"]
    ELSE IF s = <<"{t}">>
    THEN [ParseError EXCEPT !.ok = TRUE, !.choices = <<NoContent>>, !.timings = "ti2"]
    ELSE IF /\ Len(s) >= 2
            /\ s[1] = "{c:"
            /\ s[Len(s)] = "}"
            /\ \A i \in 2..(Len(s) - 1) : s[i] \in TextChars
    THEN [ParseError EXCEPT !.ok = TRUE,
                            !.choices = <<SomeContent(SubSeq(s, 2, Len(s) - 1))>>]
    ELSE ParseError

\* app.rs: the metrics holders final_* after one parsed record
app_capture(final, json) ==
    [usage |-> IF json.usage # None THEN json.usage ELSE final.usage,
     timings |-> IF json.timings # None THEN json.timings ELSE final.timings,
     created |-> json.created,
     id |-> json.id,
     model |-> json.model,
     system_fingerprint |-> json.system_fingerprint]

\* publishes coalesced: only the first delta of a completion is published
published_once(pubs, content) == IF pubs = <<>> THEN <<content>> ELSE pubs

\* the log of the per-delta publishes: one update(history.clone()) after each
\* push_str
published(pubs, content) == Append(pubs, content)

\* the line loop with a payload that does not parse published as it stands
RECURSIVE app_lines_publishing(_)
app_lines_publishing(d) ==
    LET pos == find(d.buffer, "\n") IN
    IF pos = 0 THEN d
    ELSE LET line == trim(SubSeq(d.buffer, 1, pos - 1))
             d1 == [d EXCEPT !.buffer = SubSeq(d.buffer, pos + 1, Len(d.buffer)),
                             !.done = @ \/ line = <<"data: ", "[DONE]">>]
         IN  IF starts_with_data(line) /\ line # <<"data: ", "[DONE]">>
             THEN LET json == from_str_StreamResponse(Tail(line)) IN
                  IF ~json.ok
                  THEN app_lines_publishing([d1 EXCEPT !.pubs = published(@, d.content)])
                  ELSE LET d2 == [d1 EXCEPT !.final = app_capture(d.final, json)] IN
                       IF json.choices = <<>> THEN [d2 EXCEPT !.panic = TRUE]
                       ELSE IF json.choices[1].some
                       THEN app_lines_publishing([d2 EXCEPT
                                !.content = @ \o json.choices[1].val,
                                !.pubs = published(@, d.content \o json.choices[1].val),
                                !.late = @ \/ d.done])
                       ELSE app_lines_publishing(d2)
             ELSE app_lines_publishing(d1)

\* app.rs: `while let Some(pos) = buffer.find('\n')`.  d is the decoder's
\* state: buffer, the assistant content so far, the final_* holders, the
\* contents published by update() in this loop, and whether choices[0]
\* panicked (index out of bounds on an empty choices list).  Two fields
\* observe the loop without steering it: done (the sentinel line has been
\* cut from the buffer) and late (a delta was appended after that).
RECURSIVE app_lines(_)
app_lines(d) ==
    LET pos == find(d.buffer, "\n") IN
    IF pos = 0 THEN d
    ELSE LET line == trim(SubSeq(d.buffer, 1, pos - 1))
             d1 == [d EXCEPT !.buffer = SubSeq(d.buffer, pos + 1, Len(d.buffer)),
                             !.done = @ \/ line = <<"data: ", "[DONE]">>]
         IN  IF starts_with_data(line) /\ line # <<"data: ", "[DONE]">>
             THEN LET json == from_str_StreamResponse(Tail(line)) IN
                  IF ~json.ok THEN app_lines(d1)
                  ELSE LET d2 == [d1 EXCEPT !.final = app_capture(d.final, json)] IN
                       IF json.choices = <<>> THEN [d2 EXCEPT !.panic = TRUE]
                       ELSE IF json.choices[1].some
                       THEN app_lines([d2 EXCEPT
                                !.content = @ \o json.choices[1].val,
                                !.pubs = published(@, d.content \o json.choices[1].val),
                                !.late = @ \/ d.done])
                       ELSE app_lines(d2)
             ELSE app_lines(d1)

\* lib.rs: the same loop; `[DONE]` breaks out of it and leaves the rest of
\* the buffer in place, choices.first() tolerates an empty list.
RECURSIVE lib_lines(_)
lib_lines(d) ==
    LET pos == find(d.buffer, "\n") IN
    IF pos = 0 THEN d
    ELSE LET trimmed == trim(SubSeq(d.buffer, 1, pos - 1))
             d1 == [d EXCEPT !.buffer = SubSeq(d.buffer, pos + 1, Len(d.buffer))]
         IN  IF starts_with_data(trimmed)
             THEN IF Tail(trimmed) = <<"[DONE]">> THEN [d1 EXCEPT !.done = TRUE]
                  ELSE LET json == from_str_StreamResponse(Tail(trimmed)) IN
                       IF json.ok /\ json.choices # <<>> /\ json.choices[1].some
                       THEN lib_lines([d1 EXCEPT
                                !.content = @ \o json.choices[1].val,
                                !.pubs = published(@, d.content \o json.choices[1].val),
                                !.late = @ \/ d.done])
                       ELSE lib_lines(d1)
             ELSE lib_lines(d1)

----------------------------------------------------------------------------
\* The session collection

\* iter().position(|c| c.id == id), 0 for None
position(list, id) ==
    IF \E i \in 1..Len(list) : list[i].id = id
    THEN CHOOSE i \in 1..Len(list) : list[i].id = id /\ \A j \in 1..(i - 1) : list[j].id # id
    ELSE 0

\* list.retain(|c| c.id != id)
RECURSIVE retain_not(_, _)
retain_not(list, id) ==
    IF list = <<>> THEN <<>>
    ELSE IF Head(list).id = id THEN retain_not(Tail(list), id)
         ELSE <<Head(list)>> \o retain_not(Tail(list), id)

\* curr.messages.len() == 1 && curr.messages[0].role == "system", false when
\* the id is not in the list
is_empty_chat(list, id) ==
    LET i == position(list, id) IN
    /\ i # 0
    /\ Len(list[i].messages) = 1
    /\ list[i].messages[1].role = "system"

NoTitle == [some |-> FALSE, val |-> <<>>]
SomeTitle(t) == [some |-> TRUE, val |-> t]

\* the longest title taken from a first line
TitleChars == 40

\* str::lines().next(): the text before the first line break, None for ""
first_line(s) ==
    LET pos == find(s, "\n") IN
    IF s = <<>> THEN NewChatTitle
    ELSE IF pos = 0 THEN s ELSE SubSeq(s, 1, pos - 1)

\* calc_title with the ellipsis from TitleChars characters on
calc_title_from_limit(msg_content) ==
    LET fl == first_line(msg_content)
        t == SubSeq(fl, 1, Min(Len(fl), TitleChars))
    IN  IF Len(fl) >= TitleChars THEN t \o <<".", ".", ".">> ELSE t

\* app.rs run_chat, "1. Calculate Title if needed"
calc_title(msg_content) ==
    LET fl == first_line(msg_content)
        t == SubSeq(fl, 1, Min(Len(fl), TitleChars))
    IN  IF Len(fl) > TitleChars THEN t \o <<".", ".", ".">> ELSE t

\* the closure writes into the session that is active when it publishes
update_active(chats_state, cid, title_override, msgs) ==
    LET i == position(chats_state, active_chat_id) IN
    IF i = 0 THEN chats_state
    ELSE [chats_state EXCEPT ![i].messages = msgs]

\* app.rs run_chat, the `update` closure: the collection of the captured
\* handle with the messages of cid replaced and the title forced
update(chats_state, cid, title_override, msgs) ==
    LET i == position(chats_state, cid) IN
    IF i = 0 THEN chats_state
    ELSE [chats_state EXCEPT
            ![i].messages = msgs,
            ![i].title = IF title_override.some THEN title_override.val ELSE @]

\* lib.rs: `if let Some(chat) = current_chats.iter_mut().find(..) { chat.messages
\* = ..; chats_state.set(current_chats) }`: the value written, or the store
\* left as it is when the captured collection does not hold the session
lib_publish(store, chats_state, target_chat_id, msgs) ==
    LET i == position(chats_state, target_chat_id) IN
    IF i = 0 THEN store
    ELSE [chats_state EXCEPT ![i].messages = msgs]

\* the last message takes the content and a creation time with it
set_last_content_stamped(history, content) ==
    IF history = <<>> THEN history
    ELSE [history EXCEPT ![Len(history)].content = content,
                         ![Len(history)].metrics.created = "cr0"]

\* history.last_mut().content.push_str / = content
set_last_content(history, content) ==
    IF history = <<>> THEN history
    ELSE [history EXCEPT ![Len(history)].content = content]

last_content(history) ==
    IF history = <<>> THEN <<>> ELSE history[Len(history)].content

----------------------------------------------------------------------------
\* The document collaborator (services/document_service.rs); no document is
\* stored, so every context it builds is empty.

UserMessagePrefix == <<"User message:\n">>

\* a stored document (models.rs Document); text is a sequence of units
Document(id, filename, full_content) ==
    [id |-> id, filename |-> filename, file_type |-> "txt", chunk_count |-> "1",
     full_content |-> full_content]

\* DocumentService::get_documents: the documents_v1 entry of the storage
get_documents == documents

\* str::contains: pat occurs in s
contains(s, pat) ==
    \E i \in 1..(Len(s) - Len(pat) + 1) : SubSeq(s, i, i + Len(pat) - 1) = pat

\* str::replacen(from, to, 1): the first match only
replace_first(s, from, to) ==
    IF \E i \in 1..(Len(s) - Len(from) + 1) : SubSeq(s, i, i + Len(from) - 1) = from
    THEN LET i == CHOOSE i \in 1..(Len(s) - Len(from) + 1) :
                     /\ SubSeq(s, i, i + Len(from) - 1) = from
                     /\ \A j \in 1..(i - 1) : SubSeq(s, j, j + Len(from) - 1) # from
         IN  SubSeq(s, 1, i - 1) \o to \o SubSeq(s, i + Len(from), Len(s))
    ELSE s

\* str::replace: every non-overlapping match of from, left to right
RECURSIVE replace(_, _, _)
replace(s, from, to) ==
    IF Len(s) < Len(from) THEN s
    ELSE IF SubSeq(s, 1, Len(from)) = from
    THEN to \o replace(SubSeq(s, Len(from) + 1, Len(s)), from, to)
    ELSE <<s[1]>> \o replace(Tail(s), from, to)

\* format!("@{}", doc.id)
doc_ref(doc) == <<"@", doc.id>>

\* format!("[Document: {}]", doc.filename)
doc_placeholder(doc) == <<"[Document: ">> \o doc.filename \o <<"]">>

\* the loop `for doc in &documents` of the two manual context builders, from
\* document k on: referenced_docs and current_query
RECURSIVE scan_references(_, _, _, _, _)
scan_references(docs, k, query, referenced_docs, current_query) ==
    IF k > Len(docs) THEN [referenced_docs |-> referenced_docs,
                           current_query |-> current_query]
    ELSE IF /\ contains(query, doc_ref(docs[k]))
            /\ \A n \in 1..Len(referenced_docs) : referenced_docs[n] # docs[k].id
    THEN scan_references(docs, k + 1, query, Append(referenced_docs, docs[k].id),
                         replace(current_query, doc_ref(docs[k]),
                                 doc_placeholder(docs[k])))
    ELSE scan_references(docs, k + 1, query, referenced_docs, current_query)

\* "=== Document: {} (Type: {}, Chunks: {}) ===\n{}\n\n"
doc_block(doc, doc_content) ==
    <<"=== Document: ">> \o doc.filename \o <<" (Type: ", doc.file_type,
      ", Chunks: ", doc.chunk_count, ") ===\n">> \o doc_content \o <<"\n\n">>

\* get_document_content_by_id: the content of the first document with the id
get_document_content_by_id(document_id) ==
    LET docs == get_documents
        k == CHOOSE k \in 1..Len(docs) :
                 /\ docs[k].id = document_id
                 /\ \A j \in 1..(k - 1) : docs[j].id # document_id
    IN  docs[k].full_content

\* the loop `for doc_id in &referenced_docs`, from reference n on
RECURSIVE context_blocks(_, _, _)
context_blocks(docs, referenced_docs, n) ==
    IF n > Len(referenced_docs) THEN <<>>
    ELSE LET k == position(docs, referenced_docs[n])
         IN  (IF k = 0 THEN <<>>
              ELSE doc_block(docs[k], get_document_content_by_id(referenced_docs[n])))
             \o context_blocks(docs, referenced_docs, n + 1)

\* build_manual_context_with_display: (context, display text)
build_manual_context_with_display(query) ==
    LET docs == get_documents
        r == scan_references(docs, 1, query, <<>>, query)
        context == <<"Document context:\n\n">>
                       \o context_blocks(docs, r.referenced_docs, 1)
    IN  IF docs = <<>> \/ r.referenced_docs = <<>> THEN <<<<>>, query>>
        ELSE <<context, r.current_query>>

\* build_manual_context: the context alone
build_manual_context(query) == build_manual_context_with_display(query)[1]

\* get_all_documents_text
RECURSIVE all_blocks(_, _)
all_blocks(docs, k) ==
    IF k > Len(docs) THEN <<>>
    ELSE doc_block(docs[k], docs[k].full_content) \o all_blocks(docs, k + 1)

get_all_documents_text ==
    IF get_documents = <<>> THEN <<>>
    ELSE <<"Relevant documents:\n\n">> \o all_blocks(get_documents, 1)

\* build_context; get_context_mode reads the mode from the saved settings
build_context(query) ==
    IF settings.document_context_mode = "RAG" THEN get_all_documents_text
    ELSE build_manual_context(query)

\* app.rs run_chat: (doc_context, display_message)
doc_context_and_display(mode, msg_content) ==
    IF mode = "Manual" THEN build_manual_context_with_display(msg_content)
    ELSE LET ctx == build_context(msg_content)
         IN  <<ctx, ctx \o UserMessagePrefix \o msg_content>>

----------------------------------------------------------------------------
\* Completion tasks

Temperature == "0.7"
HardCodedModel == "/root/models/Strand-Rust-Coder-14B-v1"

ChatRequest(messages, model, stream) ==
    [messages |-> messages, model |-> model, temperature |-> Temperature,
     stream |-> stream]

\* the locals of one spawn_local'ed completion
\*   pc        "request": send().await pending; "streaming": stream.next().await
\*             pending; "json": resp.json().await pending; "done"; "panicked"
\*   snap      the value the captured chats handle dereferences to
\*   req       the requests issued so far
\*   stream    the byte stream of the response, rest what has not arrived
\*   pubs      the assistant contents published by the per-delta publishes
\*   arrived   the chunks stream.next() has returned
\*   broke     the loop was left by the cancellation break
\*   decoded   every character pushed to the buffer so far
\*   done      the sentinel line has been cut from the buffer
\*   late      a delta was appended after the sentinel line
NewTask(cid, snap, history, msg_content, title_override, set, req) ==
    [pc |-> "request", cid |-> cid, snap |-> snap, history |-> history,
     msg_content |-> msg_content, title_override |-> title_override, set |-> set,
     req |-> <<req>>, stream |-> <<>>, rest |-> <<>>, buffer |-> <<>>,
     final |-> MessageMetricsDefault, pubs |-> <<>>, arrived |-> 0,
     broke |-> FALSE, decoded |-> <<>>, done |-> FALSE, late |-> FALSE,
     outcome |-> "pending"]

TaskIds == 1..Len(tasks)

\* the flag is never seen raised
cancel_load_never == FALSE

\* cancel.load(Ordering::Relaxed)
cancel_load == cancellation_token

\* what a chunk of the first k units of rest may be: any split, or only
\* splits behind a line break when the server flushes whole lines
chunk_ok(rest, k) ==
    /\ k \in 1..Len(rest)
    /\ lineChunks => (rest[k] = "\n" \/ k = Len(rest))

----------------------------------------------------------------------------
\* app.rs

\* run_chat: the handler, and the task it spawns up to its first real
\* suspension (the document service never suspends), the send().await.
\* The input is enabled only while is_loading is false (chat_area.rs).
run_chat(msg_content) ==
    /\ build = "app"
    /\ ~is_loading
    /\ Len(tasks) < Len(wire)
    /\ LET current_id == active_chat_id
           i == position(chats, current_id)
           history == (IF i = 0 THEN <<>> ELSE chats[i].messages)
                          \o <<Message("user", msg_content)>>
           new_title_opt == IF Len(history) = 2 THEN SomeTitle(calc_title(msg_content))
                            ELSE NoTitle
           all_chats == IF i = 0 THEN chats
                        ELSE [chats EXCEPT
                                ![i].title = IF new_title_opt.some THEN new_title_opt.val
                                             ELSE @,
                                ![i].messages = history]
           dd == doc_context_and_display(settings.document_context_mode, msg_content)
           doc_context == dd[1]
           \* history.last_mut(): the message just pushed, role "user"
           shown == set_last_content(history, dd[2])
           llm_messages == IF doc_context # <<>>
                           THEN set_last_content(shown,
                                    doc_context \o UserMessagePrefix \o msg_content)
                           ELSE shown
           req == ChatRequest(llm_messages, HardCodedModel, settings.stream_enabled)
       IN  /\ is_loading' = TRUE
           /\ cancellation_token' = FALSE
           /\ chats' = all_chats
           /\ tasks' = Append(tasks, NewTask(current_id, chats, shown, msg_content,
                                             new_title_opt, settings, req))
    /\ UNCHANGED <<active_chat_id, settings, libState, nextUuid, env>>
    /\ cleared' = FALSE
    /\ persist

\* chat_completion_request(..).await resolves with Err: nothing is written
app_request_err(t) ==
    /\ build = "app"
    /\ t \in TaskIds
    /\ tasks[t].pc = "request"
    /\ tasks' = [tasks EXCEPT ![t].pc = "done", ![t].outcome = "transport_error"]
    /\ is_loading' = FALSE
    /\ UNCHANGED <<chats, active_chat_id, settings, cancellation_token, libState, nextUuid, env>>
    /\ cleared' = FALSE
    /\ persist

\* chat_completion_request(..).await resolves with Ok(resp)
app_request_ok(t) ==
    /\ build = "app"
    /\ t \in TaskIds
    /\ tasks[t].pc = "request"
    /\ IF tasks[t].set.stream_enabled
       THEN \E stream \in wire[t] :
              LET history == Append(tasks[t].history, Message("assistant", <<>>)) IN
              /\ tasks' = [tasks EXCEPT ![t].pc = "streaming",
                                        ![t].history = history,
                                        ![t].stream = stream, ![t].rest = stream]
              /\ chats' = update(tasks[t].snap, tasks[t].cid, tasks[t].title_override,
                                 history)
       ELSE /\ tasks' = [tasks EXCEPT ![t].pc = "json"]
            /\ chats' = chats
    /\ UNCHANGED <<active_chat_id, settings, is_loading, cancellation_token, libState, nextUuid, env>>
    /\ cleared' = FALSE
    /\ persist

\* the residual buffer read for its usage only
app_residual_usage_only(history, buffer) ==
    LET json == from_str_StreamResponse(buffer)
        n == Len(history)
    IN  IF buffer = <<>> \/ ~json.ok \/ n = 0 THEN history
        ELSE [history EXCEPT
                ![n].metrics.usage = IF json.usage # None THEN json.usage ELSE @]

\* from_str::<StreamResponse>(&buffer) of the residual buffer
app_residual(history, buffer) ==
    LET json == from_str_StreamResponse(buffer)
        n == Len(history)
    IN  IF buffer = <<>> \/ ~json.ok \/ n = 0 THEN history
        ELSE [history EXCEPT
                ![n].metrics.usage = IF json.usage # None THEN json.usage ELSE @,
                ![n].metrics.timings = IF json.timings # None THEN json.timings ELSE @]

\* the assistant message is dropped when the loop is left
app_after_loop_drop(history, final, buffer) ==
    SubSeq(history, 1, Len(history) - 1)

\* what follows the stream loop: the metrics are stored in the last message
\* and published, the residual buffer is parsed and, if it parses, published
app_after_loop(history, final, buffer) ==
    LET n == Len(history)
        with_metrics == IF n = 0 THEN history ELSE [history EXCEPT ![n].metrics = final]
    IN  app_residual(with_metrics, buffer)

\* stream.next().await returns Some(Ok(chunk)) of the first k units of rest
app_chunk(t, k) ==
    /\ build = "app"
    /\ t \in TaskIds
    /\ tasks[t].pc = "streaming"
    /\ chunk_ok(tasks[t].rest, k)
    /\ LET T == tasks[t]
           rest == SubSeq(T.rest, k + 1, Len(T.rest))
       IN  IF cancel_load
           THEN LET history == app_after_loop(T.history, T.final, T.buffer) IN
                /\ tasks' = [tasks EXCEPT ![t].pc = "done", ![t].history = history,
                                          ![t].arrived = @ + 1, ![t].broke = TRUE,
                                          ![t].outcome = "cancelled"]
                /\ chats' = update(T.snap, T.cid, T.title_override, history)
                /\ is_loading' = FALSE
           ELSE LET chunk_str == from_utf8_lossy(SubSeq(T.rest, 1, k))
                    d == app_lines([buffer |-> T.buffer \o chunk_str,
                                    content |-> last_content(T.history),
                                    final |-> T.final, pubs |-> <<>>, panic |-> FALSE,
                                    done |-> T.done, late |-> T.late])
                    history == set_last_content(T.history, d.content)
                IN  /\ tasks' = [tasks EXCEPT
                                    ![t].pc = IF d.panic THEN "panicked" ELSE "streaming",
                                    ![t].history = history, ![t].rest = rest,
                                    ![t].buffer = d.buffer, ![t].final = d.final,
                                    ![t].pubs = @ \o d.pubs, ![t].arrived = @ + 1,
                                    ![t].decoded = @ \o chunk_str,
                                    ![t].done = d.done, ![t].late = d.late,
                                    ![t].outcome = IF d.panic THEN "panicked" ELSE @]
                    /\ chats' = IF d.pubs = <<>> THEN chats
                                ELSE update(T.snap, T.cid, T.title_override, history)
                    /\ is_loading' = is_loading
    /\ UNCHANGED <<active_chat_id, settings, cancellation_token, libState, nextUuid, env>>
    /\ cleared' = FALSE
    /\ persist

\* stream.next().await returns None
app_stream_end(t) ==
    /\ build = "app"
    /\ t \in TaskIds
    /\ tasks[t].pc = "streaming"
    /\ tasks[t].rest = <<>>
    /\ LET T == tasks[t]
           history == app_after_loop(T.history, T.final, T.buffer)
       IN  /\ tasks' = [tasks EXCEPT ![t].pc = "done", ![t].history = history,
                                     ![t].outcome = "completed"]
           /\ chats' = update(T.snap, T.cid, T.title_override, history)
    /\ is_loading' = FALSE
    /\ UNCHANGED <<active_chat_id, settings, cancellation_token, libState, nextUuid, env>>
    /\ cleared' = FALSE
    /\ persist

\* the text the server puts in its answer to the t-th completion
TaskText == <<"a", "b", "c">>
task_text(t) == TaskText[((t - 1) % Len(TaskText)) + 1]

\* resp.json::<ChatResponse>(): a body that does not parse, one with an empty
\* choices list, one with a message and the envelope fields
JsonBodies == {"unparsable", "no_choice", "message"}

\* the envelope read for its usage only
EnvelopeMetrics_usage_only ==
    [usage |-> "us1", timings |-> None, created |-> None, id |-> None,
     model |-> None, system_fingerprint |-> None]

EnvelopeMetrics ==
    [usage |-> "us1", timings |-> "ti1", created |-> "cr1", id |-> "id1",
     model |-> "mo1", system_fingerprint |-> "fp1"]

\* resp.json().await resolves (non-streaming); the cancellation flag is not read
app_json(t, body) ==
    /\ build = "app"
    /\ t \in TaskIds
    /\ tasks[t].pc = "json"
    /\ body \in JsonBodies
    /\ LET T == tasks[t]
           msg == [role |-> "assistant", content |-> <<task_text(t)>>,
                   metrics |-> EnvelopeMetrics]
           history == Append(T.history, msg)
       IN  IF body = "message"
           THEN /\ tasks' = [tasks EXCEPT ![t].pc = "done", ![t].history = history,
                                          ![t].outcome = "completed"]
                /\ chats' = update(T.snap, T.cid, T.title_override, history)
           ELSE /\ tasks' = [tasks EXCEPT ![t].pc = "done", ![t].outcome = "no_message"]
                /\ chats' = chats
    /\ is_loading' = FALSE
    /\ UNCHANGED <<active_chat_id, settings, cancellation_token, libState, nextUuid, env>>
    /\ cleared' = FALSE
    /\ persist

\* on_stop: the Stop button is rendered only while is_loading is true
on_stop ==
    /\ is_loading
    /\ cancellation_token' = TRUE
    /\ is_loading' = FALSE
    /\ UNCHANGED <<chats, active_chat_id, settings, tasks, libState, nextUuid, env>>
    /\ cleared' = FALSE
    /\ persist

\* on_new_chat with push in place of insert(0, ..)
on_new_chat_push ==
    /\ build = "app"
    /\ IF is_empty_chat(chats, active_chat_id)
       THEN UNCHANGED <<chats, active_chat_id, nextUuid>>
       ELSE /\ nextUuid <= MaxUuid
            /\ chats' = Append(chats, ChatSessionNew(nextUuid, settings.system_prompt))
            /\ active_chat_id' = nextUuid
            /\ nextUuid' = nextUuid + 1
    /\ UNCHANGED <<settings, is_loading, cancellation_token, tasks, libState, env>>
    /\ cleared' = FALSE
    /\ persist

on_new_chat ==
    /\ build = "app"
    /\ IF is_empty_chat(chats, active_chat_id)
       THEN UNCHANGED <<chats, active_chat_id, nextUuid>>
       ELSE /\ nextUuid <= MaxUuid
            /\ chats' = <<ChatSessionNew(nextUuid, settings.system_prompt)>> \o chats
            /\ active_chat_id' = nextUuid
            /\ nextUuid' = nextUuid + 1
    /\ UNCHANGED <<settings, is_loading, cancellation_token, tasks, libState, env>>
    /\ cleared' = FALSE
    /\ persist

\* on_select_chat without should_delete_prev
on_select_chat_keeps_prev(target_id) ==
    /\ build = "app"
    /\ \E i \in 1..Len(chats) : chats[i].id = target_id
    /\ IF active_chat_id = target_id
       THEN UNCHANGED <<chats, active_chat_id>>
       ELSE /\ chats' = chats
            /\ active_chat_id' = target_id
    /\ UNCHANGED <<settings, is_loading, cancellation_token, tasks, libState, nextUuid, env>>
    /\ cleared' = FALSE
    /\ persist

\* the sidebar offers the sessions of the collection
on_select_chat(target_id) ==
    /\ build = "app"
    /\ \E i \in 1..Len(chats) : chats[i].id = target_id
    /\ IF active_chat_id = target_id
       THEN UNCHANGED <<chats, active_chat_id>>
       ELSE /\ chats' = IF is_empty_chat(chats, active_chat_id)
                        THEN retain_not(chats, active_chat_id)
                        ELSE chats
            /\ active_chat_id' = target_id
    /\ UNCHANGED <<settings, is_loading, cancellation_token, tasks, libState, nextUuid, env>>
    /\ cleared' = FALSE
    /\ persist

on_delete_chat(id) ==
    /\ build = "app"
    /\ \E i \in 1..Len(chats) : chats[i].id = id
    /\ chats' = retain_not(chats, id)
    /\ UNCHANGED <<active_chat_id, settings, is_loading, cancellation_token, tasks, libState, nextUuid, env>>
    /\ cleared' = FALSE
    /\ persist

\* on_settings_save without the test of the active session: a changed prompt
\* always gets a session of its own
on_settings_save_always_new(new_settings) ==
    /\ build = "app"
    /\ settings' = new_settings
    /\ IF new_settings.system_prompt # settings.system_prompt
       THEN /\ nextUuid <= MaxUuid
            /\ chats' = <<ChatSessionNew(nextUuid, new_settings.system_prompt)>>
                           \o chats
            /\ active_chat_id' = nextUuid
            /\ nextUuid' = nextUuid + 1
       ELSE UNCHANGED <<chats, active_chat_id, nextUuid>>
    /\ UNCHANGED <<is_loading, cancellation_token, tasks, libState, env>>
    /\ cleared' = FALSE
    /\ persist

on_settings_save(new_settings) ==
    /\ build = "app"
    /\ settings' = new_settings
    /\ IF new_settings.system_prompt # settings.system_prompt
       THEN IF is_empty_chat(chats, active_chat_id)
            THEN /\ chats' = [chats EXCEPT
                                ![position(chats, active_chat_id)].messages[1].content =
                                    new_settings.system_prompt]
                 /\ UNCHANGED <<active_chat_id, nextUuid>>
            ELSE /\ nextUuid <= MaxUuid
                 /\ chats' = <<ChatSessionNew(nextUuid, new_settings.system_prompt)>>
                                \o chats
                 /\ active_chat_id' = nextUuid
                 /\ nextUuid' = nextUuid + 1
       ELSE UNCHANGED <<chats, active_chat_id, nextUuid>>
    /\ UNCHANGED <<is_loading, cancellation_token, tasks, libState, env>>
    /\ cleared' = FALSE
    /\ persist

\* app.rs on_reset_settings; window.confirm() answers confirmed
on_reset_settings(confirmed) ==
    /\ build = "app"
    /\ settings' = IF confirmed THEN AppSettingsDefault ELSE settings
    /\ UNCHANGED <<chats, active_chat_id, is_loading, cancellation_token, tasks,
                   libState, nextUuid, env>>
    /\ cleared' = FALSE
    /\ persist

\* LocalStorage::get(key): the entry parsed, None when there is none or it
\* does not parse
storage_get_settings == from_str_AppSettings(local_storage.settings)
storage_get_chats == from_str_chats(local_storage.chats)

\* the page is loaded again: every use_state initializer of app() runs on
\* what the storage holds, the tasks of the old page are gone, and the
\* effects of the first render write both keys
reload ==
    LET initial_settings == IF storage_get_settings.some THEN storage_get_settings.val
                            ELSE AppSettingsDefault
        first_prompt == IF build = "app" THEN HelpfulAssistant
                        ELSE initial_settings.system_prompt
    IN  /\ settings' = initial_settings
        /\ IF storage_get_chats.some
           THEN chats' = storage_get_chats.val /\ nextUuid' = nextUuid
           ELSE /\ nextUuid <= MaxUuid
                /\ chats' = <<ChatSessionNew(nextUuid, first_prompt)>>
                /\ nextUuid' = nextUuid + 1
        /\ active_chat_id' = IF chats' = <<>> THEN 0 ELSE chats'[1].id
        /\ is_loading' = FALSE
        /\ cancellation_token' = FALSE
        /\ tasks' = <<>>
        /\ title_check_queue' = 0
        /\ title_tasks' = <<>>
        /\ editing_index' = -1
        /\ edit_buffer' = <<>>
        /\ cleared' = FALSE
        /\ UNCHANGED env
        /\ persist_on_mount

\* window.confirm() answers confirmed
on_clear_all_chats(confirmed) ==
    /\ build = "app"
    /\ IF confirmed
       THEN /\ nextUuid <= MaxUuid
            /\ chats' = <<ChatSessionNew(nextUuid, settings.system_prompt)>>
            /\ active_chat_id' = nextUuid
            /\ nextUuid' = nextUuid + 1
       ELSE UNCHANGED <<chats, active_chat_id, nextUuid>>
    /\ UNCHANGED <<settings, is_loading, cancellation_token, tasks, libState, env>>
    /\ cleared' = confirmed
    /\ persist

----------------------------------------------------------------------------
\* lib.rs

ErrorText == <<"Error: transport">>

\* the title the server generates for the n-th title request
title_text(n) == <<"T", task_text(n)>>

\* the title generation effect (use_effect_with(title_check_queue)): it runs
\* in the render that follows a change of the queue's value, on the
\* collection of that render; it spawns a title task when the session has at
\* most 4 messages and still the placeholder title
TitleMaxMessages == 4

title_effect(old_queue, new_queue, list, pending) ==
    LET i == position(list, new_queue) IN
    IF /\ new_queue # old_queue
       /\ i # 0
       /\ Len(list[i].messages) <= TitleMaxMessages
       /\ list[i].title = NewChatTitle
    THEN Append(pending, [pc |-> "request", chat_id |-> new_queue, snap |-> list,
                          msgs |-> list[i].messages])
    ELSE pending

\* the end of the completion task: is_loading_state.set(false),
\* title_queue.set(Some(target_chat_id)), and the effect of the next render
lib_finish(t, list) ==
    /\ is_loading' = FALSE
    /\ title_check_queue' = tasks[t].cid
    /\ title_tasks' = title_effect(title_check_queue, tasks[t].cid, list, title_tasks)

\* run_chat_completion without the store(false) of its entry
run_chat_completion_keeps_flag(history_to_send) ==
    /\ build = "lib"
    /\ Len(tasks) < Len(wire)
    /\ LET current_id == active_chat_id
           req == ChatRequest(history_to_send, settings.selected_model,
                              settings.stream_enabled)
       IN  /\ is_loading' = TRUE
           /\ cancellation_token' = cancellation_token
           /\ chats' = lib_publish(chats, chats, current_id, history_to_send)
           /\ tasks' = Append(tasks, NewTask(current_id, chats, history_to_send,
                                             <<>>, NoTitle, settings, req))

\* run_chat_completion: the handler, and the task up to send().await
run_chat_completion(history_to_send) ==
    /\ build = "lib"
    /\ Len(tasks) < Len(wire)
    /\ LET current_id == active_chat_id
           req == ChatRequest(history_to_send, settings.selected_model,
                              settings.stream_enabled)
       IN  /\ is_loading' = TRUE
           /\ cancellation_token' = FALSE
           /\ chats' = lib_publish(chats, chats, current_id, history_to_send)
           /\ tasks' = Append(tasks, NewTask(current_id, chats, history_to_send,
                                             <<>>, NoTitle, settings, req))

\* current_messages of the render: the transcript of the active session
current_messages ==
    LET i == position(chats, active_chat_id) IN
    IF i = 0 THEN <<>> ELSE chats[i].messages

perform_send(input_text) ==
    /\ input_text # <<>>
    /\ ~is_loading
    /\ run_chat_completion(Append(current_messages, Message("user", input_text)))
    /\ UNCHANGED <<active_chat_id, settings, libState, nextUuid, env>>
    /\ cleared' = FALSE
    /\ persist

\* the message list renders an edit box (Cancel, Save) for index idx
is_editing(idx) ==
    /\ editing_index = idx
    /\ idx \in 0..(Len(current_messages) - 1)

\* lib.rs on_edit_click; the Edit button is rendered for a user message
\* outside an edit box while no completion is loading
on_edit_click(idx) ==
    /\ build = "lib"
    /\ idx \in 0..(Len(current_messages) - 1)
    /\ ~is_editing(idx)
    /\ current_messages[idx + 1].role = "user"
    /\ ~is_loading
    /\ editing_index' = idx
    /\ edit_buffer' = current_messages[idx + 1].content
    /\ UNCHANGED <<chats, active_chat_id, settings, is_loading, cancellation_token,
                   tasks, title_check_queue, title_tasks, nextUuid, env>>
    /\ cleared' = FALSE
    /\ persist

\* lib.rs on_edit_input: the textarea of the edit box
on_edit_input(value) ==
    /\ build = "lib"
    /\ is_editing(editing_index)
    /\ edit_buffer' = value
    /\ UNCHANGED <<chats, active_chat_id, settings, is_loading, cancellation_token,
                   tasks, title_check_queue, title_tasks, editing_index, nextUuid,
                   env>>
    /\ cleared' = FALSE
    /\ persist

\* lib.rs on_edit_cancel
on_edit_cancel ==
    /\ build = "lib"
    /\ is_editing(editing_index)
    /\ editing_index' = -1
    /\ UNCHANGED <<chats, active_chat_id, settings, is_loading, cancellation_token,
                   tasks, title_check_queue, title_tasks, edit_buffer, nextUuid, env>>
    /\ cleared' = FALSE
    /\ persist

\* branched_history of on_edit_save without the truncate
branched_history_keeps_tail(msgs, idx, buffer) ==
    IF idx < Len(msgs) THEN [msgs EXCEPT ![idx + 1].content = buffer]
    ELSE IF msgs = <<>> THEN msgs
    ELSE [msgs EXCEPT ![Len(msgs)].content = buffer]

\* branched_history of on_edit_save keeping the edited message alone
branched_history_edited_only(msgs, idx, buffer) ==
    IF idx < Len(msgs) THEN <<[msgs[idx + 1] EXCEPT !.content = buffer]>>
    ELSE IF msgs = <<>> THEN msgs
    ELSE [msgs EXCEPT ![Len(msgs)].content = buffer]

\* branched_history of on_edit_save with truncate(idx)
branched_history_short(msgs, idx, buffer) ==
    LET truncated == IF idx < Len(msgs) THEN SubSeq(msgs, 1, idx) ELSE msgs
    IN  IF truncated = <<>> THEN truncated
        ELSE [truncated EXCEPT ![Len(truncated)].content = buffer]

\* branched_history of on_edit_save: truncate(idx + 1), then the content of
\* the last message is replaced by the buffer
branched_history(msgs, idx, buffer) ==
    LET truncated == IF idx < Len(msgs) THEN SubSeq(msgs, 1, idx + 1) ELSE msgs
    IN  IF truncated = <<>> THEN truncated
        ELSE [truncated EXCEPT ![Len(truncated)].content = buffer]

\* lib.rs on_edit_save; the Save button is rendered inside the edit box
on_edit_save(idx) ==
    /\ is_editing(idx)
    /\ run_chat_completion(branched_history(current_messages, idx, edit_buffer))
    /\ editing_index' = -1
    /\ edit_buffer' = <<>>
    /\ UNCHANGED <<active_chat_id, settings, title_check_queue, title_tasks,
                   nextUuid, env>>
    /\ cleared' = FALSE
    /\ persist

\* send().await resolves with Err(e)
lib_request_err(t) ==
    /\ build = "lib"
    /\ t \in TaskIds
    /\ tasks[t].pc = "request"
    /\ LET T == tasks[t]
           error_hist == Append(T.history, Message("system", ErrorText))
       IN  /\ chats' = IF ~cancel_load
                       THEN lib_publish(chats, T.snap, T.cid, error_hist)
                       ELSE chats
           /\ tasks' = [tasks EXCEPT ![t].pc = "done",
                                     ![t].history = IF ~cancel_load
                                                    THEN error_hist ELSE @,
                                     ![t].outcome = "transport_error"]
    /\ lib_finish(t, chats')
    /\ UNCHANGED <<active_chat_id, settings, cancellation_token, editing_index,
                   edit_buffer, nextUuid, env>>
    /\ cleared' = FALSE
    /\ persist

\* send().await resolves with Ok(response)
lib_request_ok(t) ==
    /\ build = "lib"
    /\ t \in TaskIds
    /\ tasks[t].pc = "request"
    /\ IF tasks[t].set.stream_enabled
       THEN \E stream \in wire[t] :
              LET stream_history == Append(tasks[t].history, Message("assistant", <<>>))
              IN  /\ tasks' = [tasks EXCEPT ![t].pc = "streaming",
                                            ![t].history = stream_history,
                                            ![t].stream = stream, ![t].rest = stream]
                  /\ chats' = lib_publish(chats, tasks[t].snap, tasks[t].cid,
                                          stream_history)
       ELSE /\ tasks' = [tasks EXCEPT ![t].pc = "json"]
            /\ chats' = chats
    /\ UNCHANGED <<active_chat_id, settings, is_loading, cancellation_token,
                   libState, nextUuid, env>>
    /\ cleared' = FALSE
    /\ persist

\* stream.next().await returns Some(Ok(chunk_bytes)) of the first k units
lib_chunk(t, k) ==
    /\ build = "lib"
    /\ t \in TaskIds
    /\ tasks[t].pc = "streaming"
    /\ chunk_ok(tasks[t].rest, k)
    /\ LET T == tasks[t]
           rest == SubSeq(T.rest, k + 1, Len(T.rest))
           held == position(T.snap, T.cid) # 0
       IN  IF cancel_load
           THEN /\ tasks' = [tasks EXCEPT ![t].pc = "done", ![t].arrived = @ + 1,
                                          ![t].broke = TRUE, ![t].outcome = "cancelled"]
                /\ chats' = chats
                /\ lib_finish(t, chats')
           ELSE LET chunk_str == from_utf8_lossy(SubSeq(T.rest, 1, k))
                    d == lib_lines([buffer |-> T.buffer \o chunk_str,
                                    content |-> last_content(T.history),
                                    final |-> T.final, pubs |-> <<>>, panic |-> FALSE,
                                    done |-> T.done, late |-> T.late])
                    stream_history == set_last_content(T.history, d.content)
                IN  /\ tasks' = [tasks EXCEPT
                                    ![t].history = stream_history, ![t].rest = rest,
                                    ![t].buffer = d.buffer,
                                    ![t].pubs = IF held THEN @ \o d.pubs ELSE @,
                                    ![t].decoded = @ \o chunk_str,
                                    ![t].done = d.done, ![t].late = d.late,
                                    ![t].arrived = @ + 1]
                    /\ chats' = IF d.pubs = <<>> THEN chats
                                ELSE lib_publish(chats, T.snap, T.cid, stream_history)
                    /\ UNCHANGED <<is_loading, title_check_queue, title_tasks>>
    /\ UNCHANGED <<active_chat_id, settings, cancellation_token, editing_index,
                   edit_buffer, nextUuid, env>>
    /\ cleared' = FALSE
    /\ persist

\* stream.next().await returns None
lib_stream_end(t) ==
    /\ build = "lib"
    /\ t \in TaskIds
    /\ tasks[t].pc = "streaming"
    /\ tasks[t].rest = <<>>
    /\ tasks' = [tasks EXCEPT ![t].pc = "done", ![t].outcome = "completed"]
    /\ chats' = chats
    /\ lib_finish(t, chats')
    /\ UNCHANGED <<active_chat_id, settings, cancellation_token, editing_index,
                   edit_buffer, nextUuid, env>>
    /\ cleared' = FALSE
    /\ persist

\* response.json().await resolves (non-streaming)
lib_json(t, body) ==
    /\ build = "lib"
    /\ t \in TaskIds
    /\ tasks[t].pc = "json"
    /\ body \in JsonBodies
    /\ LET T == tasks[t]
           new_hist == Append(T.history, Message("assistant", <<task_text(t)>>))
           commit == body = "message" /\ ~cancel_load
       IN  /\ tasks' = [tasks EXCEPT
                          ![t].pc = "done",
                          ![t].history = IF commit THEN new_hist ELSE @,
                          ![t].outcome = IF body # "message" THEN "no_message"
                                         ELSE IF cancel_load THEN "cancelled"
                                         ELSE "completed"]
           /\ chats' = IF commit THEN lib_publish(chats, T.snap, T.cid, new_hist)
                       ELSE chats
    /\ lib_finish(t, chats')
    /\ UNCHANGED <<active_chat_id, settings, cancellation_token, editing_index,
                   edit_buffer, nextUuid, env>>
    /\ cleared' = FALSE
    /\ persist

\* the title request resolves: answered = a body with a choice arrived
title_response(n, answered) ==
    /\ build = "lib"
    /\ n \in 1..Len(title_tasks)
    /\ title_tasks[n].pc = "request"
    /\ title_tasks' = [title_tasks EXCEPT ![n].pc = "done"]
    /\ LET current_chats == title_tasks[n].snap
           i == position(current_chats, title_tasks[n].chat_id)
       IN  chats' = IF answered /\ i # 0 /\ current_chats[i].title = NewChatTitle
                    THEN [current_chats EXCEPT ![i].title = title_text(n)]
                    ELSE chats
    /\ UNCHANGED <<active_chat_id, settings, is_loading, cancellation_token, tasks,
                   title_check_queue, editing_index, edit_buffer, nextUuid, env>>
    /\ cleared' = FALSE
    /\ persist

\* lib.rs on_new_chat: always a new session at the front
lib_on_new_chat ==
    /\ build = "lib"
    /\ nextUuid <= MaxUuid
    /\ chats' = <<ChatSessionNew(nextUuid, settings.system_prompt)>> \o chats
    /\ active_chat_id' = nextUuid
    /\ nextUuid' = nextUuid + 1
    /\ UNCHANGED <<settings, is_loading, cancellation_token, tasks, libState, env>>
    /\ cleared' = FALSE
    /\ persist

lib_on_select_chat(id) ==
    /\ build = "lib"
    /\ \E i \in 1..Len(chats) : chats[i].id = id
    /\ active_chat_id' = id
    /\ UNCHANGED <<chats, settings, is_loading, cancellation_token, tasks, libState,
                   nextUuid, env>>
    /\ cleared' = FALSE
    /\ persist

\* lib.rs on_delete_chat; window.confirm() answers confirmed
lib_on_delete_chat(id, confirmed) ==
    /\ build = "lib"
    /\ \E i \in 1..Len(chats) : chats[i].id = id
    /\ LET current == retain_not(chats, id) IN
       IF ~confirmed THEN UNCHANGED <<chats, active_chat_id, nextUuid>>
       ELSE IF active_chat_id # id
       THEN chats' = current /\ UNCHANGED <<active_chat_id, nextUuid>>
       ELSE IF current # <<>>
       THEN /\ chats' = current
            /\ active_chat_id' = current[1].id
            /\ nextUuid' = nextUuid
       ELSE /\ nextUuid <= MaxUuid
            /\ chats' = <<ChatSessionNew(nextUuid, settings.system_prompt)>>
            /\ active_chat_id' = nextUuid
            /\ nextUuid' = nextUuid + 1
    /\ UNCHANGED <<settings, is_loading, cancellation_token, tasks, libState, env>>
    /\ cleared' = FALSE
    /\ persist

lib_on_clear_all_chats(confirmed) ==
    /\ build = "lib"
    /\ IF confirmed
       THEN /\ nextUuid <= MaxUuid
            /\ chats' = <<ChatSessionNew(nextUuid, settings.system_prompt)>>
            /\ active_chat_id' = nextUuid
            /\ nextUuid' = nextUuid + 1
       ELSE UNCHANGED <<chats, active_chat_id, nextUuid>>
    /\ UNCHANGED <<settings, is_loading, cancellation_token, tasks, libState, env>>
    /\ cleared' = confirmed
    /\ persist

\* lib.rs on_system_prompt_change: the prompt is a state of its own
on_system_prompt_change(value) ==
    /\ build = "lib"
    /\ settings' = [settings EXCEPT !.system_prompt = value]
    /\ UNCHANGED <<chats, active_chat_id, is_loading, cancellation_token, tasks,
                   libState, nextUuid, env>>
    /\ cleared' = FALSE
    /\ persist

\* lib.rs on_stream_change
on_stream_change(checked) ==
    /\ build = "lib"
    /\ settings' = [settings EXCEPT !.stream_enabled = checked]
    /\ UNCHANGED <<chats, active_chat_id, is_loading, cancellation_token, tasks,
                   libState, nextUuid, env>>
    /\ cleared' = FALSE
    /\ persist

----------------------------------------------------------------------------
\* What the server sends

DeltaLine(bytes) == <<"data: ", "{c:">> \o bytes \o <<"}", "\n">>
DoneLine == <<"data: ", "[DONE]", "\n">>

\* the lines of the byte streams of the decoder specification: two deltas
\* (one with a two-byte character), the sentinel, a payload that is no JSON,
\* a record with metrics and no text
StreamLines ==
    { DeltaLine(<<"a">>), DeltaLine(<<"C3", "A9">>), DoneLine,
      <<"data: ", "??", "\n">>, <<"data: ", "{m}", "\n">> }

\* what may follow the last line break: nothing, or a record with timings
StreamTails == { <<>>, <<"{t}">> }

RECURSIVE lines_up_to(_)
lines_up_to(n) ==
    IF n = 0 THEN { <<>> }
    ELSE lines_up_to(n - 1)
           \cup { s \o l : s \in lines_up_to(n - 1), l \in StreamLines }

DecodeStreams == { s \o tl : s \in lines_up_to(MaxLines), tl \in StreamTails }

\* the answers of the streams, sessions and titles specifications: the t-th
\* completion is answered with two deltas of its own text, in whole lines
store_deltas(t) == << <<task_text(t)>>, <<"x", task_text(t)>> >>

store_streams(t) == { DeltaLine(store_deltas(t)[1]) \o DeltaLine(store_deltas(t)[2]) }

UserInputs == { <<"h", "i">>, <<"y", "o">> }

----------------------------------------------------------------------------
\* Initial states: nothing persisted except, possibly, the stream switch

InitCommon ==
    /\ build \in {"app", "lib"}
    /\ chats = <<ChatSessionNew(1, IF build = "app" THEN HelpfulAssistant
                                   ELSE HelpfulAssistantDot)>>
    /\ active_chat_id = 1
    /\ is_loading = FALSE
    /\ cancellation_token = FALSE
    /\ tasks = <<>>
    /\ title_check_queue = 0
    /\ title_tasks = <<>>
    /\ nextUuid = 2
    /\ editing_index = -1
    /\ edit_buffer = <<>>
    /\ cleared = FALSE

\* the storage once the effects of the first render have written both keys
StorageWritten ==
    /\ local_storage = [chats |-> to_string_chats(chats),
                        settings |-> to_string_AppSettings(settings)]
    /\ set_item = [chats |-> "ok", settings |-> "ok"]

SettingsLoaded(stream_enabled) ==
    [AppSettingsDefault EXCEPT !.stream_enabled = stream_enabled]

\* the decoder specification: one session, one completion, any byte stream
\* of DecodeStreams cut into chunks at any place; without streaming the
\* body is not read as a stream
InitDecode ==
    /\ InitCommon
    /\ documents = <<>>
    /\ quota = "ok"
    /\ \E b \in BOOLEAN, s \in DecodeStreams :
          /\ b \/ s = <<>>
          /\ settings = SettingsLoaded(b)
          /\ wire = <<{s}>>
    /\ lineChunks = FALSE
    /\ StorageWritten

TaskStep(t) ==
    \/ app_request_ok(t)
    \/ app_request_err(t)
    \/ \E k \in 1..Len(tasks[t].rest) : app_chunk(t, k)
    \/ app_stream_end(t)
    \/ \E body \in JsonBodies : app_json(t, body)
    \/ lib_request_ok(t)
    \/ lib_request_err(t)
    \/ \E k \in 1..Len(tasks[t].rest) : lib_chunk(t, k)
    \/ lib_stream_end(t)
    \/ \E body \in JsonBodies : lib_json(t, body)

NextDecode ==
    \/ run_chat(<<"h", "i">>)
    \/ perform_send(<<"h", "i">>)
    \/ on_stop
    \/ \E t \in TaskIds : TaskStep(t)
    \/ \E n \in 1..Len(title_tasks), answered \in BOOLEAN : title_response(n, answered)

SpecDecode == InitDecode /\ [][NextDecode]_vars

----------------------------------------------------------------------------
\* What the claims measure the decoder against

RECURSIVE concat(_)
concat(ss) == IF ss = <<>> THEN <<>> ELSE Head(ss) \o concat(Tail(ss))

\* the lines of a text that end in a line break
RECURSIVE complete_lines(_)
complete_lines(text) ==
    LET pos == find(text, "\n") IN
    IF pos = 0 THEN <<>>
    ELSE <<SubSeq(text, 1, pos - 1)>>
           \o complete_lines(SubSeq(text, pos + 1, Len(text)))

is_done_line(line) == trim(line) = <<"data: ", "[DONE]">>

\* the delta text of a line: <<text>> for a well-formed `data: ` line whose
\* record carries text, <<>> for every other line
delta_of(line) ==
    LET l == trim(line)
        json == from_str_StreamResponse(Tail(l))
    IN  IF /\ starts_with_data(l)
           /\ ~is_done_line(l)
           /\ json.ok
           /\ json.choices # <<>>
           /\ json.choices[1].some
        THEN <<json.choices[1].val>>
        ELSE <<>>

RECURSIVE deltas_of_lines(_)
deltas_of_lines(ls) ==
    IF ls = <<>> THEN <<>> ELSE delta_of(Head(ls)) \o deltas_of_lines(Tail(ls))

\* the delta texts of the complete lines of a text, in order
deltas_of(text) == deltas_of_lines(complete_lines(text))

\* d1, d1 d2, ..., d1 .. dn
prefix_concats(ds) == [i \in 1..Len(ds) |-> concat(SubSeq(ds, 1, i))]

\* the stream has the shape of the protocol: nothing follows the sentinel
\* line, and no record has an empty choices list
ends_at_done(stream) ==
    LET ls == complete_lines(from_utf8_lossy(stream)) IN
    /\ \A i \in 1..Len(ls) : is_done_line(ls[i]) =>
          /\ i = Len(ls)
          /\ stream[Len(stream)] = "\n"

\* the characters the decoder has cut from its buffer as lines
consumed(T) == SubSeq(T.decoded, 1, Len(T.decoded) - Len(T.buffer))

\* the transcript of the task's session in the store, <<>> when it is not there
stored_messages(T) ==
    LET i == position(chats, T.cid) IN
    IF i = 0 THEN <<>> ELSE chats[i].messages

\* C1: a streaming completion that is not cancelled ends with the assistant
\* content equal to the concatenation, in order, of the delta texts of all
\* well-formed `data: ` lines of the byte stream, however the stream was cut
\* into chunks (streams in which nothing follows the sentinel line).
C1_ContentIsDeltaConcat ==
    \A t \in TaskIds :
        ( /\ tasks[t].set.stream_enabled
          /\ tasks[t].outcome = "completed"
          /\ ~cancellation_token
          /\ ends_at_done(tasks[t].stream) )
        => last_content(tasks[t].history)
             = concat(deltas_of(from_utf8_lossy(tasks[t].stream)))

\* C2: once the sentinel line `data: [DONE]` has been decoded, no delta text
\* is appended to the assistant message of that completion.
C2_NothingAfterDone ==
    \A t \in TaskIds : ~tasks[t].late

\* C3: non-streaming, the flag raised between the request and the response:
\* no assistant message is in the session's transcript once the task is done.
C3_CancelDiscardsResult ==
    \A t \in TaskIds :
        ( /\ ~tasks[t].set.stream_enabled
          /\ tasks[t].pc = "done"
          /\ cancellation_token )
        => \A i \in 1..Len(stored_messages(tasks[t])) :
              stored_messages(tasks[t])[i].role # "assistant"

\* C6: a transport failure with the flag not set: a system message follows
\* the user's message in the transcript, the loading flag is cleared and one
\* request was issued.
C6_TransportErrorShown ==
    \A t \in TaskIds :
        ( /\ tasks[t].outcome = "transport_error"
          /\ ~cancellation_token )
        => LET msgs == stored_messages(tasks[t]) IN
           /\ Len(msgs) >= 2
           /\ msgs[Len(msgs)].role = "system"
           /\ msgs[Len(msgs) - 1].role = "user"
           /\ ~is_loading
           /\ Len(tasks[t].req) = 1

\* C4: the flag is polled when a chunk has arrived, before the chunk is
\* processed: a chunk that arrives while the flag is raised ends the task
\* with the assistant text, the publishes and the number of messages as they
\* were, no system message in the stored transcript behind the first one;
\* and a task that left the loop this way never changes again.
C4_CancelStopsDecoding ==
    [][ \A t \in TaskIds :
          /\ ( /\ tasks[t].pc = "streaming"
               /\ cancellation_token
               /\ tasks'[t].arrived = tasks[t].arrived + 1 )
             => /\ tasks'[t].pc = "done"
                /\ tasks'[t].broke
                /\ last_content(tasks'[t].history) = last_content(tasks[t].history)
                /\ tasks'[t].pubs = tasks[t].pubs
                /\ Len(tasks'[t].history) = Len(tasks[t].history)
                /\ LET i == position(chats', tasks[t].cid) IN
                   i # 0 => \A j \in 2..Len(chats'[i].messages) :
                                chats'[i].messages[j].role # "system"
          /\ tasks[t].broke => tasks'[t] = tasks[t] ]_vars

\* C4 witness: a task left the loop on the flag after it had merged text,
\* and the bytes it never read hold a further delta
C4_Witness ==
    \E t \in TaskIds :
        /\ tasks[t].broke
        /\ tasks[t].pubs # <<>>
        /\ deltas_of(from_utf8_lossy(tasks[t].rest)) # <<>>

\* C5: after a streaming completion was cancelled, the last message of the
\* session's transcript is the assistant message, and its content is exactly
\* the concatenation of the deltas decoded before the cancellation.
C5_PartialMessageKept ==
    \A t \in TaskIds :
        tasks[t].broke =>
            LET msgs == stored_messages(tasks[t]) IN
            /\ Len(msgs) >= 1
            /\ msgs[Len(msgs)].role = "assistant"
            /\ msgs[Len(msgs)].content = concat(deltas_of(consumed(tasks[t])))

\* C5 witness: a cancelled completion that had merged some text
C5_Witness ==
    \E t \in TaskIds :
        /\ tasks[t].broke
        /\ last_content(tasks[t].history) # <<>>
        /\ tasks[t].rest # <<>>

\* C8: the contents published by the per-delta publishes are d1, d1 d2, ...,
\* d1 .. dn for the deltas d1 .. dn of the lines decoded so far: one publish
\* for each delta, none skipped, none batched.
C8_PublishPerDelta ==
    \A t \in TaskIds :
        tasks[t].set.stream_enabled =>
            tasks[t].pubs = prefix_concats(deltas_of(consumed(tasks[t])))

\* C8 witness: two deltas decoded and published, the stream still running
C8_Witness ==
    \E t \in TaskIds :
        /\ tasks[t].pc = "streaming"
        /\ Len(tasks[t].pubs) >= 2
        /\ tasks[t].pubs[2] # tasks[t].pubs[1]

----------------------------------------------------------------------------
\* The streams specification: up to MaxTasks completions stream, each its
\* own text, while the user stops them and creates and selects sessions;
\* the title requests of lib.rs stay unanswered.

StreamStep(t) ==
    \/ app_request_ok(t)
    \/ app_request_err(t)
    \/ \E k \in 1..Len(tasks[t].rest) : app_chunk(t, k)
    \/ app_stream_end(t)
    \/ lib_request_ok(t)
    \/ lib_request_err(t)
    \/ \E k \in 1..Len(tasks[t].rest) : lib_chunk(t, k)
    \/ lib_stream_end(t)

SessionIds == { chats[i].id : i \in 1..Len(chats) }

InitStreams ==
    /\ InitCommon
    /\ documents = <<>>
    /\ quota = "ok"
    /\ settings = SettingsLoaded(TRUE)
    /\ wire = [t \in 1..MaxTasks |-> store_streams(t)]
    /\ lineChunks = TRUE
    /\ StorageWritten

NextStreams ==
    \/ run_chat(<<"h", "i">>)
    \/ perform_send(<<"h", "i">>)
    \/ on_stop
    \/ \E t \in TaskIds : StreamStep(t)
    \/ nextUuid <= MaxStreamUuid /\ on_new_chat
    \/ \E id \in SessionIds : on_select_chat(id)
    \/ nextUuid <= MaxStreamUuid /\ lib_on_new_chat
    \/ \E id \in SessionIds : lib_on_select_chat(id)

SpecStreams == InitStreams /\ [][NextStreams]_vars

----------------------------------------------------------------------------
\* The sessions specification: sessions are created, selected, deleted and
\* cleared and the prompt is changed, around one completion without
\* streaming, which the user does not stop.

\* the task of a completion without streaming, when the request is answered
JsonStep(t) ==
    \/ app_request_ok(t)
    \/ \E body \in JsonBodies : app_json(t, body)
    \/ lib_request_ok(t)
    \/ \E body \in JsonBodies : lib_json(t, body)

Prompts == { HelpfulAssistantDot, OtherPrompt }

InitSessions ==
    /\ InitCommon
    /\ documents = <<>>
    /\ quota = "ok"
    /\ settings = SettingsLoaded(FALSE)
    /\ wire = <<store_streams(1)>>
    /\ lineChunks = TRUE
    /\ StorageWritten

NextSessions ==
    \/ run_chat(<<"h", "i">>)
    \/ perform_send(<<"h", "i">>)
    \/ \E t \in TaskIds : JsonStep(t)
    \/ \E t \in TaskIds : app_request_err(t) \/ lib_request_err(t)
    \/ \E n \in 1..Len(title_tasks), answered \in BOOLEAN : title_response(n, answered)
    \/ on_new_chat
    \/ \E id \in SessionIds : on_select_chat(id)
    \/ \E id \in SessionIds : on_delete_chat(id)
    \/ \E pr \in Prompts : on_settings_save([settings EXCEPT !.system_prompt = pr])
    \/ \E confirmed \in BOOLEAN : on_clear_all_chats(confirmed)
    \/ lib_on_new_chat
    \/ \E id \in SessionIds : lib_on_select_chat(id)
    \/ \E id \in SessionIds, confirmed \in BOOLEAN : lib_on_delete_chat(id, confirmed)
    \/ \E confirmed \in BOOLEAN : lib_on_clear_all_chats(confirmed)
    \/ \E pr \in Prompts : on_system_prompt_change(pr)

SpecSessions == InitSessions /\ [][NextSessions]_vars

----------------------------------------------------------------------------
\* The titles specification: up to MaxTitleTasks completions without
\* streaming, in up to MaxTitleUuid sessions, and the titles derived from them.

InitTitles ==
    /\ InitCommon
    /\ documents = <<>>
    /\ quota = "ok"
    /\ settings = SettingsLoaded(FALSE)
    /\ wire = [t \in 1..MaxTitleTasks |-> store_streams(t)]
    /\ lineChunks = TRUE
    /\ StorageWritten

NextTitles ==
    \/ \E m \in UserInputs : run_chat(m)
    \/ perform_send(<<"h", "i">>)
    \/ \E t \in TaskIds : JsonStep(t)
    \/ \E n \in 1..Len(title_tasks) : title_response(n, TRUE)
    \/ nextUuid <= MaxTitleUuid /\ on_new_chat
    \/ \E id \in SessionIds : on_select_chat(id)
    \/ nextUuid <= MaxTitleUuid /\ lib_on_new_chat
    \/ \E id \in SessionIds : lib_on_select_chat(id)

SpecTitles == InitTitles /\ [][NextTitles]_vars

----------------------------------------------------------------------------
\* Claims on the streams, sessions and titles specifications

\* the contents an assistant message fed by the t-th completion can have:
\* nothing, d1, d1 d2 for the deltas d1, d2 of its answer, in order
answer_prefixes(t) ==
    {<<>>} \cup { prefix_concats(store_deltas(t))[i] : i \in 1..Len(store_deltas(t)) }

\* C7: every assistant message of every stored session holds the deltas, in
\* the order of the stream, of a completion that was started in that very
\* session: no transcript receives text of a completion of another session,
\* whichever session is active.
C7_DeltasToOwnSession ==
    \A i \in 1..Len(chats) : \A j \in 1..Len(chats[i].messages) :
        chats[i].messages[j].role = "assistant" =>
            \E t \in TaskIds :
                /\ tasks[t].cid = chats[i].id
                /\ chats[i].messages[j].content \in answer_prefixes(t)

\* C7 witness: a completion is streaming and has published two deltas into
\* its own session while the user has selected another stored session,
\* which holds no text of that completion
C7_Witness ==
    \E t \in TaskIds :
        /\ tasks[t].pc = "streaming"
        /\ Len(tasks[t].pubs) >= 2
        /\ active_chat_id # tasks[t].cid
        /\ position(chats, active_chat_id) # 0
        /\ last_content(stored_messages(tasks[t])) = tasks[t].pubs[2]

\* the session a title derivation step writes into: the target of a title
\* task whose response arrives (lib.rs), the session of a completion that
\* carries a title_override and is started or publishes (app.rs); 0 for a
\* step that derives no title
title_written ==
    IF \E n \in 1..Len(title_tasks) :
           title_tasks[n].pc = "request" /\ title_tasks'[n].pc = "done"
    THEN LET n == CHOOSE n \in 1..Len(title_tasks) :
                     title_tasks[n].pc = "request" /\ title_tasks'[n].pc = "done"
         IN  title_tasks[n].chat_id
    ELSE IF \E t \in 1..Len(tasks') :
                /\ tasks'[t].title_override.some
                /\ t \in TaskIds => tasks'[t] # tasks[t]
    THEN LET t == CHOOSE t \in 1..Len(tasks') :
                     /\ tasks'[t].title_override.some
                     /\ t \in TaskIds => tasks'[t] # tasks[t]
         IN  tasks'[t].cid
    ELSE 0

title_of(list, id) ==
    LET i == position(list, id) IN IF i = 0 THEN NewChatTitle ELSE list[i].title

\* C9: a step of a title derivation leaves the title of its session as it
\* is when that title, in the store at the moment of the step, differs from
\* the placeholder.
C9_TitleNeverOverwritten ==
    [][ ( /\ title_written # 0
          /\ position(chats, title_written) # 0
          /\ position(chats', title_written) # 0
          /\ title_of(chats, title_written) # NewChatTitle )
        => title_of(chats', title_written) = title_of(chats, title_written) ]_vars

\* C10: right after a confirmed clearAll the collection holds exactly one
\* session, whose transcript is the one system message with the system
\* prompt of the settings, and that session is the active one.
C10_ClearAllLeavesOneSession ==
    cleared =>
        /\ Len(chats) = 1
        /\ chats[1].messages = <<Message("system", settings.system_prompt)>>
        /\ active_chat_id = chats[1].id

\* C10 witness: clearAll has just run, with a changed prompt in the
\* settings, on a store that had held two sessions and a transcript with an
\* answer in it
C10_Witness ==
    /\ cleared
    /\ settings.system_prompt = OtherPrompt
    /\ nextUuid = 4
    /\ \E t \in TaskIds : tasks[t].outcome = "completed"

(***************************************************************************)
(* Session handlers: delete, create, the active identifier                 *)
(***************************************************************************)

\* a session as ChatSession::new / create_new_chat builds it
is_fresh_session(c, system_prompt) ==
    /\ c.title = NewChatTitle
    /\ c.messages = <<Message("system", system_prompt)>>

\* C11: a step of the delete handler (confirmed, where the handler asks)
\* that deletes the active session makes the first remaining session active
\* or, when none remains, leaves one fresh session that is active; a step
\* that deletes another session removes only that session and leaves the
\* active id as it is.
C11_DeleteFallsBack ==
    [][ \A id \in SessionIds :
          (on_delete_chat(id) \/ lib_on_delete_chat(id, TRUE)) =>
              LET current == retain_not(chats, id) IN
              IF active_chat_id # id
              THEN chats' = current /\ active_chat_id' = active_chat_id
              ELSE IF current # <<>>
              THEN chats' = current /\ active_chat_id' = current[1].id
              ELSE /\ Len(chats') = 1
                   /\ is_fresh_session(chats'[1], settings.system_prompt)
                   /\ active_chat_id' = chats'[1].id ]_vars

\* what an insertion by the create handler leaves: a fresh session with a
\* new id at the front, active, and the former sessions behind it in order
new_chat_inserted ==
    /\ Len(chats') = Len(chats) + 1
    /\ is_fresh_session(chats'[1], settings.system_prompt)
    /\ position(chats, chats'[1].id) = 0
    /\ active_chat_id' = chats'[1].id
    /\ SubSeq(chats', 2, Len(chats')) = chats

\* a step of the create handler of either snapshot
new_chat_step == on_new_chat \/ lib_on_new_chat

\* C12 (as stated): in every state the create handler inserts a fresh
\* session (title "New Chat", one system message with the current prompt)
\* at the front, makes it active and keeps the other sessions in order.
C12_NewChatAlwaysInserts ==
    nextUuid <= MaxUuid => ENABLED (new_chat_step /\ new_chat_inserted)

\* C12 (amended): the create handler inserts as above in every state but
\* one: in app.rs, when the active session is in the collection and holds
\* only its system message, the handler leaves collection and active id as
\* they are.
C12_NewChatInsertsUnlessEmpty ==
    nextUuid <= MaxUuid =>
        IF build = "app" /\ is_empty_chat(chats, active_chat_id)
        THEN ENABLED (new_chat_step /\ UNCHANGED <<chats, active_chat_id>>)
        ELSE ENABLED (new_chat_step /\ new_chat_inserted)

\* C12 witness: a session created by New Chat, with the changed prompt, in
\* front of a session that holds an answer
C12_Witness ==
    /\ Len(chats) >= 2
    /\ is_fresh_session(chats[1], OtherPrompt)
    /\ active_chat_id = chats[1].id
    /\ Len(chats[2].messages) >= 3

\* C13: in every reachable state the active id is the id of a session of
\* the collection.
C13_ActiveIdResolves ==
    position(chats, active_chat_id) # 0

(***************************************************************************)
(* Edit and branch (lib.rs)                                                *)
(***************************************************************************)

MaxEditTasks == 2
MaxEditUuid == 2
MaxEditIndex == 4

\* the indices of the messages a transcript of the specification can hold
EditIndexes == 0..MaxEditIndex

EditInputs == { <<"e", "d">> }

LibJsonStep(t) ==
    \/ lib_request_ok(t)
    \/ \E body \in JsonBodies : lib_json(t, body)

InitEdit ==
    /\ InitCommon
    /\ documents = <<>>
    /\ quota = "ok"
    /\ build = "lib"
    /\ settings = SettingsLoaded(FALSE)
    /\ wire = [t \in 1..MaxEditTasks |-> store_streams(t)]
    /\ lineChunks = TRUE
    /\ StorageWritten

NextEdit ==
    \/ perform_send(<<"h", "i">>)
    \/ \E t \in TaskIds : LibJsonStep(t)
    \/ \E t \in TaskIds : lib_request_err(t)
    \/ on_stop
    \/ \E idx \in EditIndexes : on_edit_click(idx)
    \/ \E value \in EditInputs : on_edit_input(value)
    \/ on_edit_cancel
    \/ \E idx \in EditIndexes : on_edit_save(idx)
    \/ nextUuid <= MaxEditUuid /\ lib_on_new_chat
    \/ \E id \in SessionIds : lib_on_select_chat(id)

SpecEdit == InitEdit /\ [][NextEdit]_vars

\* a completion that has not ended
in_flight(t) == tasks[t].pc # "done"

\* C14: a step of the save handler at index idx of a transcript with more
\* than idx messages hands a history of exactly idx + 1 messages to the
\* completion, and the transcript of the active session in the store has
\* exactly idx + 1 messages after the step.
C14_EditTruncates ==
    [][ \A idx \in EditIndexes :
          (on_edit_save(idx) /\ Len(current_messages) > idx) =>
              /\ Len(tasks'[Len(tasks')].history) = idx + 1
              /\ LET i == position(chats', active_chat_id)
                 IN  i # 0 /\ Len(chats'[i].messages) = idx + 1 ]_vars

\* C14 witness: an edit saved at index 1 of a transcript of three messages
\* started the second completion, with the edited text as the last message
C14_Witness ==
    /\ Len(tasks) = 2
    /\ Len(tasks[1].history) = 3
    /\ tasks[2].pc = "request"
    /\ Len(tasks[2].history) = 2
    /\ tasks[2].history[2] = Message("user", <<"e", "d">>)
    /\ current_messages = tasks[2].history

\* C15: a step of the save handler commits the edit of a user message, and
\* no completion is in flight (nor is the loading flag set) when it is taken.
C15_EditOnlyUserAndIdle ==
    [][ \A idx \in EditIndexes :
          on_edit_save(idx) =>
              /\ current_messages[idx + 1].role = "user"
              /\ ~is_loading
              /\ \A t \in TaskIds : ~in_flight(t) ]_vars

\* C16: at most one completion task is running in any reachable state.
C16_OneCompletionInFlight ==
    \A t1, t2 \in TaskIds : (in_flight(t1) /\ in_flight(t2)) => t1 = t2

(***************************************************************************)
(* Documents in the prompt (app.rs, document_service.rs)                   *)
(***************************************************************************)

MaxQuery == 4

\* the units of a prompt: text, the sign of a reference, document ids
QueryUnits == {"q", "@", "d1", "d2"}

RECURSIVE SeqsUpTo(_, _)
SeqsUpTo(S, n) ==
    IF n = 0 THEN { <<>> }
    ELSE LET shorter == SeqsUpTo(S, n - 1)
         IN  shorter \cup { Append(q, u) : q \in { x \in shorter : Len(x) = n - 1 },
                                           u \in S }

Queries == SeqsUpTo(QueryUnits, MaxQuery) \ { <<>> }

\* the stored documents: ids are fresh uuids, so a file name can hold the
\* reference of a document stored before it, never of one stored after it
D1 == Document("d1", <<"f1">>, <<"c1">>)
D2 == Document("d2", <<"f2">>, <<"c2">>)
D2named == Document("d2", <<"@", "d1">>, <<"c2">>)

DocStores == { <<>>, <<D1>>, <<D1, D2>>, <<D1, D2named>> }

DocStep(t) ==
    \/ app_request_ok(t)
    \/ app_request_err(t)
    \/ \E k \in 1..Len(tasks[t].rest) : app_chunk(t, k)
    \/ app_stream_end(t)
    \/ \E body \in JsonBodies : app_json(t, body)

InitDocs ==
    /\ InitCommon
    /\ build = "app"
    /\ documents \in DocStores
    /\ quota = "ok"
    /\ \E b \in BOOLEAN, mode \in {"Manual", "RAG"} :
          settings = [SettingsLoaded(b) EXCEPT !.document_context_mode = mode]
    /\ wire = <<store_streams(1)>>
    /\ lineChunks = TRUE
    /\ StorageWritten

NextDocs ==
    \/ \E q \in Queries : run_chat(q)
    \/ on_stop
    \/ \E t \in TaskIds : DocStep(t)

SpecDocs == InitDocs /\ [][NextDocs]_vars

\* the ids of the stored documents a prompt names
referenced(query) ==
    { documents[k].id : k \in { j \in 1..Len(documents) :
                                  contains(query, <<"@", documents[j].id>>) } }

\* the prompt with each reference of a stored document replaced, in one pass
RECURSIVE with_placeholders(_)
with_placeholders(q) ==
    IF q = <<>> THEN <<>>
    ELSE IF Len(q) >= 2 /\ q[1] = "@" /\ position(documents, q[2]) # 0
    THEN doc_placeholder(documents[position(documents, q[2])])
             \o with_placeholders(SubSeq(q, 3, Len(q)))
    ELSE <<q[1]>> \o with_placeholders(Tail(q))

\* how often pat occurs in s
occurrences(s, pat) ==
    Cardinality({ i \in 1..(Len(s) - Len(pat) + 1) : SubSeq(s, i, i + Len(pat) - 1) = pat })

\* C17: for the prompt of every send in manual mode: with no reference of
\* a stored document the builder returns the empty context and the prompt
\* itself; otherwise the display text is the prompt with every reference of
\* a stored document replaced by "[Document: <filename>]" and the context
\* holds the content of each referenced document once and of no other.
C17_ManualContextAndDisplay ==
    \A t \in TaskIds :
        tasks[t].set.document_context_mode = "Manual" =>
            LET query == tasks[t].msg_content
                r == build_manual_context_with_display(query)
            IN  IF referenced(query) = {} THEN r = <<<<>>, query>>
                ELSE /\ r[2] = with_placeholders(query)
                     /\ \A k \in 1..Len(documents) :
                            occurrences(r[1], documents[k].full_content)
                                = IF documents[k].id \in referenced(query) THEN 1 ELSE 0

\* C17 witness: a prompt that names the first document twice and the second
\* once, the second stored under a file name that holds a reference
C17_Witness ==
    \E t \in TaskIds :
        /\ tasks[t].set.document_context_mode = "Manual"
        /\ documents = <<D1, D2named>>
        /\ tasks[t].msg_content = <<"@", "d1", "@", "d2">>

\* the place of the user message of send t in its transcript
user_index(t) == Len(tasks[t].req[1].messages)

\* the content of the user message in the request of send t
llm_user_content(t) == tasks[t].req[1].messages[user_index(t)].content

\* C18: once a send in manual mode has finished, the user message of that
\* send in the transcript of its session is the display text, and when a
\* context was built no message of the store holds the content sent to the
\* server.
C18_DisplayCopyStored ==
    \A t \in TaskIds :
        ( /\ tasks[t].pc = "done"
          /\ tasks[t].set.document_context_mode = "Manual" ) =>
            LET dd == build_manual_context_with_display(tasks[t].msg_content)
                msgs == stored_messages(tasks[t])
            IN  /\ Len(msgs) >= user_index(t)
                /\ msgs[user_index(t)].content = dd[2]
                /\ dd[1] # <<>> =>
                       \A i \in 1..Len(chats) : \A n \in 1..Len(chats[i].messages) :
                           chats[i].messages[n].content # llm_user_content(t)

(***************************************************************************)
(* Settings in the storage (models.rs, storage.rs)                         *)
(***************************************************************************)

SavedPrompt1 == [id |-> "sp1", name |-> <<"n">>, content |-> <<"p">>]

\* the values of AppSettings
AllSettings ==
    [system_prompt : {HelpfulAssistantDot}, base_url : {LocalhostUrl},
     selected_model : {"default", "m1"}, stream_enabled : BOOLEAN,
     saved_prompts : { <<>>, <<SavedPrompt1>> },
     document_context_mode : {"Manual", "RAG"}, show_metrics : BOOLEAN]

\* the fields AppSettings got after its first version
LaterFields == {"saved_prompts", "document_context_mode", "show_metrics"}

\* an object without the keys of K
without(json, K) == JObj([k \in (DOMAIN json.v) \ K |-> json.v[k]])

\* what an earlier version of the program has written: the settings
\* without some of the later fields
OldBlobs ==
    { without(to_string_AppSettings(s), K) : s \in AllSettings, K \in SUBSET LaterFields }

\* entries that do not parse: no first-version field stream_enabled, a
\* variant under its Rust name, a flag written as text
BrokenBlobs ==
    { without(to_string_AppSettings(AppSettingsDefault), {"stream_enabled"}),
      JObj([to_string_AppSettings(AppSettingsDefault).v EXCEPT
              !.document_context_mode = JStr(<<"Manual">>)]),
      JObj([to_string_AppSettings(AppSettingsDefault).v EXCEPT
              !.show_metrics = JStr(<<"true">>)]) }

\* what the storage can hold under chat_settings_v1 when the page is loaded
SettingsBlobs == OldBlobs \cup BrokenBlobs \cup { NoItem }

\* first start with an entry of SettingsBlobs, no sessions stored; the
\* writes of the first render may fail
InitSettings ==
    /\ InitCommon
    /\ build = "app"
    /\ documents = <<>>
    /\ quota = "flaky"
    /\ wire = <<store_streams(1)>>
    /\ lineChunks = TRUE
    /\ \E blob \in SettingsBlobs, ok_chats \in BOOLEAN, ok_settings \in BOOLEAN :
          /\ settings = IF from_str_AppSettings(blob).some
                        THEN from_str_AppSettings(blob).val ELSE AppSettingsDefault
          /\ local_storage = [chats |-> IF ok_chats THEN to_string_chats(chats)
                                        ELSE NoItem,
                              settings |-> IF ok_settings
                                           THEN to_string_AppSettings(settings)
                                           ELSE blob]
          /\ set_item = [chats |-> IF ok_chats THEN "ok" ELSE "failed",
                         settings |-> IF ok_settings THEN "ok" ELSE "failed"]

\* what the settings panel saves: one value of every field
SavedSettings ==
    { s \in AllSettings : /\ s.show_metrics = (s.document_context_mode = "Manual")
                          /\ s.stream_enabled = (s.saved_prompts = <<>>)
                          /\ (s.selected_model = "m1") = s.stream_enabled }

NextSettings ==
    \/ \E s \in SavedSettings : on_settings_save(s)
    \/ \E confirmed \in BOOLEAN : on_reset_settings(confirmed)
    \/ reload

SpecSettings == InitSettings /\ [][NextSettings]_vars

\* Default::default() of the types of the later fields
FieldDefault ==
    [saved_prompts |-> <<>>, document_context_mode |-> "RAG", show_metrics |-> FALSE]

\* C19: a page load reads back the settings value that was written last,
\* with every field as it was; and from an entry that lacks later fields it
\* takes every field the entry has and the default of each one it lacks.
C19_SettingsRoundTrip ==
    [][ reload =>
          /\ set_item.settings = "ok" => settings' = settings
          /\ local_storage.settings \in OldBlobs =>
                 LET blob == local_storage.settings.v
                     loaded == to_string_AppSettings(settings').v
                 IN  /\ \A k \in DOMAIN blob : loaded[k] = blob[k]
                     /\ \A k \in LaterFields \ DOMAIN blob :
                            settings'[k] = FieldDefault[k] ]_vars

\* C19 witness: the page was loaded again from an entry without
\* saved_prompts and show_metrics that no write has replaced; model and mode
\* are those of the entry
C19_Witness ==
    /\ nextUuid = 3
    /\ set_item.settings = "failed"
    /\ local_storage.settings.kind = "object"
    /\ DOMAIN local_storage.settings.v =
           {"system_prompt", "base_url", "selected_model", "stream_enabled",
            "document_context_mode"}
    /\ local_storage.settings.v.document_context_mode = JStr(<<"manual">>)
    /\ settings = [AppSettingsDefault EXCEPT !.selected_model = "m1",
                                              !.document_context_mode = "Manual",
                                              !.show_metrics = FALSE]
    /\ local_storage.settings.v.selected_model = JStr(<<"m1">>)

(***************************************************************************)
(* The collection in the storage (app.rs, lib.rs, storage.rs)              *)
(***************************************************************************)

MaxPersistUuid == 2

\* first start with an empty storage; the writes of the first render and
\* every later write may fail
InitPersist ==
    /\ InitCommon
    /\ documents = <<>>
    /\ quota = "flaky"
    /\ settings = SettingsLoaded(FALSE)
    /\ wire = <<store_streams(1)>>
    /\ lineChunks = TRUE
    /\ \E ok_chats \in BOOLEAN :
          /\ local_storage = [chats |-> IF ok_chats THEN to_string_chats(chats)
                                        ELSE NoItem,
                              settings |-> to_string_AppSettings(settings)]
          /\ set_item = [chats |-> IF ok_chats THEN "ok" ELSE "failed",
                         settings |-> "ok"]

NextPersist ==
    \/ run_chat(<<"h", "i">>)
    \/ perform_send(<<"h", "i">>)
    \/ \E t \in TaskIds : JsonStep(t)
    \/ nextUuid <= MaxPersistUuid /\ on_new_chat
    \/ \E id \in SessionIds : on_select_chat(id)
    \/ \E id \in SessionIds : on_delete_chat(id)
    \/ nextUuid <= MaxPersistUuid /\ on_clear_all_chats(TRUE)
    \/ nextUuid <= MaxPersistUuid /\ lib_on_new_chat
    \/ \E id \in SessionIds : lib_on_select_chat(id)
    \/ \E id \in SessionIds : nextUuid <= MaxPersistUuid /\ lib_on_delete_chat(id, TRUE)
    \/ nextUuid <= MaxPersistUuid /\ lib_on_clear_all_chats(TRUE)

SpecPersist == InitPersist /\ [][NextPersist]_vars

\* C20: after every step whose write of the collection succeeded, or that
\* left the collection as a successful write had stored it, the entry of
\* the storage parses to the collection in memory; a step that changes the
\* collection and whose write fails leaves the entry as it was, and is a
\* step like any other: the collection in memory has changed.
C20_CollectionPersisted ==
    [][ /\ set_item'.chats = "ok" =>
               from_str_chats(local_storage'.chats) = SomeValue(chats')
        /\ chats' # chats =>
               \/ set_item'.chats = "ok"
               \/ /\ set_item'.chats = "failed"
                  /\ local_storage'.chats = local_storage.chats ]_vars

\* C20 witness: an earlier write stored a collection, the write of a later
\* step failed: the storage still parses to a collection, which is not the
\* one in memory, and the memory holds the answer of a completed run
C20_Witness ==
    /\ set_item.chats = "failed"
    /\ from_str_chats(local_storage.chats) # NoValue
    /\ from_str_chats(local_storage.chats) # SomeValue(chats)
    /\ \E t \in TaskIds : tasks[t].outcome = "completed"
    /\ \E i \in 1..Len(chats) : Len(chats[i].messages) = 3

(***************************************************************************)
(* The request and the life of a completion (app.rs run_chat, lib.rs       *)
(* run_chat_completion)                                                    *)
(***************************************************************************)

\* C21: every completion has issued exactly one request; the request holds
\* as many messages as the transcript that ends in the new user message,
\* with the same roles, the model selected in the settings the handler
\* read, the temperature 0.7 and the stream switch of those settings.
C21_OneRequestWithSettings ==
    \A t \in TaskIds :
        /\ Len(tasks[t].req) = 1
        /\ LET r == tasks[t].req[1]
               n == Len(r.messages)
           IN  /\ n >= 1
               /\ n <= Len(tasks[t].history)
               /\ r.messages[n].role = "user"
               /\ \A k \in 1..n : r.messages[k].role = tasks[t].history[k].role
               /\ \A k \in 1..(n - 1) : r.messages[k] = tasks[t].history[k]
               /\ r.model = tasks[t].set.selected_model
               /\ r.temperature = "0.7"
               /\ r.stream = tasks[t].set.stream_enabled

\* no field of the metrics holds a value
is_empty(metrics) == \A f \in DOMAIN metrics : metrics[f] = None

\* C22: in every state every system and user message of every stored
\* session has empty metrics, and while a completion is in its stream loop
\* the assistant message it has published has empty metrics.
C22_MetricsOnlyWhenComplete ==
    /\ \A i \in 1..Len(chats) :
          \A n \in 1..Len(chats[i].messages) :
              chats[i].messages[n].role \in {"system", "user"}
                  => is_empty(chats[i].messages[n].metrics)
    /\ \A t \in TaskIds :
          tasks[t].pc = "streaming" =>
              LET msgs == stored_messages(tasks[t]) IN
              /\ msgs # <<>>
              /\ msgs[Len(msgs)].role = "assistant"
              /\ is_empty(msgs[Len(msgs)].metrics)

\* C22 witness: a completion in its stream loop has captured usage from a
\* record and has published text, and the stored message holds the text
C22_Witness ==
    \E t \in TaskIds :
        /\ build = "app"
        /\ tasks[t].pc = "streaming"
        /\ tasks[t].final.usage # None
        /\ tasks[t].pubs # <<>>
        /\ last_content(stored_messages(tasks[t])) # <<>>

\* C23: the step of a handler that starts a completion leaves the loading
\* flag true and the cancellation flag false, whatever they were before; the
\* task's first suspension, the request, comes after that step.
C23_EntrySetsFlags ==
    [][ Len(tasks') = Len(tasks) + 1 =>
            /\ is_loading'
            /\ ~cancellation_token'
            /\ tasks'[Len(tasks')].pc = "request" ]_vars

\* C23 witness: the first completion was stopped and left its loop on the
\* raised flag; the second has just been started and the flag is down again
C23_Witness ==
    /\ Len(tasks) = 2
    /\ tasks[1].outcome = "cancelled"
    /\ tasks[2].pc = "request"
    /\ is_loading
    /\ ~cancellation_token

\* the number of messages of the transcript the t-th completion sent
sent_len(t) == Len(tasks[t].req[1].messages)

\* the user message the t-th send wrote: as typed, or as the display copy
\* the task puts in its place (app.rs)
user_message_of(t, m) ==
    /\ m.role = "user"
    /\ m.content \in (IF build = "app"
                      THEN {tasks[t].msg_content, tasks[t].history[sent_len(t)].content}
                      ELSE {tasks[t].req[1].messages[sent_len(t)].content})

\* C24: from the step that starts a completion on, in every state and
\* whatever the request and the stream do, the transcript of the target
\* session in the store begins with the messages that were there at the
\* send followed by the new user message.
C24_OptimisticTranscriptStays ==
    \A t \in TaskIds :
        LET msgs == stored_messages(tasks[t])
            n == sent_len(t)
        IN  /\ Len(msgs) >= n
            /\ \A k \in 1..(n - 1) : msgs[k] = tasks[t].req[1].messages[k]
            /\ user_message_of(t, msgs[n])

(***************************************************************************)
(* The life of a completion, with a server that answers: every request    *)
(* resolves and every chunk of a response arrives.                         *)
(***************************************************************************)

MaxLifeTasks == 2

\* a record with an empty choices list
EmptyChoicesLine == <<"data: ", "{}", "\n">>

\* the responses: a delta and the sentinel; a record without choices and a
\* delta
LifeStreams ==
    { DeltaLine(<<"a">>) \o DoneLine, EmptyChoicesLine \o DeltaLine(<<"a">>) }

InitLife ==
    /\ InitCommon
    /\ documents = <<>>
    /\ quota = "ok"
    /\ \E b \in BOOLEAN : settings = SettingsLoaded(b)
    /\ wire = [t \in 1..MaxLifeTasks |-> LifeStreams]
    /\ lineChunks = TRUE
    /\ StorageWritten

NextLife ==
    \/ run_chat(<<"h", "i">>)
    \/ perform_send(<<"h", "i">>)
    \/ on_stop
    \/ \E t \in TaskIds : TaskStep(t)

\* the t-th task waits for the server: a step of it is enabled (the request
\* resolves one way or the other, the next chunk or the end of the stream
\* arrives, the body arrives)
task_ready(t) == t \in TaskIds /\ tasks[t].pc \in {"request", "streaming", "json"}

\* spawn_local and a server that answers: a task that stays ready takes its
\* step.  This is WF_vars(TaskStep(t)), with ENABLED written out as
\* task_ready(t).
SpecLife ==
    /\ InitLife
    /\ [][NextLife]_vars
    /\ \A t \in 1..MaxLifeTasks :
          \/ []<>(~task_ready(t))
          \/ []<><<t \in TaskIds /\ TaskStep(t)>>_vars

\* the places of a task: Sending, Streaming, AwaitingFullResponse, and Idle
\* again
life_step(from, to) ==
    \/ from = to
    \/ from = "request" /\ to \in {"streaming", "json", "done"}
    \/ from = "streaming" /\ to = "done"
    \/ from = "json" /\ to = "done"

\* C25: a completion moves from the request to the stream loop or to the
\* wait for the body and from there to its end, it leaves on the
\* cancellation flag only from the stream loop, the step that ends it
\* clears the loading flag, and every completion that was started ends.
C25_CompletionReturnsToIdle ==
    /\ [][ \A t \in TaskIds :
             /\ life_step(tasks[t].pc, tasks'[t].pc)
             /\ (tasks'[t].broke /\ ~tasks[t].broke) => tasks[t].pc = "streaming"
             /\ (tasks'[t].pc = "done" /\ tasks[t].pc # "done") => ~is_loading' ]_vars
    /\ \A t \in 1..MaxLifeTasks :
          (Len(tasks) >= t) ~> (Len(tasks) >= t /\ tasks[t].pc = "done")

(***************************************************************************)
(* The response without streaming (app.rs)                                 *)
(***************************************************************************)

\* the transcript of session id in the collection list
messages_of(list, id) ==
    LET i == position(list, id) IN
    IF i = 0 THEN <<>> ELSE list[i].messages

\* C26: without streaming and with the cancellation flag down, the step in
\* which the body arrives is the only publish of the task after the
\* optimistic one.  A body with a message leaves in the store the
\* transcript the task holds (the one it sent, the last user message in its
\* display form) followed by one assistant message with the text and the
\* usage, timings, id, created, model and system_fingerprint of the
\* envelope; a body that does not parse or has no choice changes nothing.
C26_OnePublishWithEnvelope ==
    [][ \A t \in TaskIds :
          /\ (tasks[t].pc = "request" /\ tasks'[t].pc = "json") => chats' = chats
          /\ (tasks[t].pc = "json" /\ tasks'[t].pc = "done" /\ ~cancellation_token) =>
                LET held == tasks[t].history
                    sent == tasks[t].req[1].messages
                    n == Len(held)
                    msgs == messages_of(chats', tasks[t].cid)
                IN  IF tasks'[t].outcome = "completed"
                    THEN /\ Len(sent) = n
                         /\ \A k \in 1..(n - 1) : sent[k] = held[k]
                         /\ Len(msgs) = n + 1
                         /\ SubSeq(msgs, 1, n) = held
                         /\ msgs[n + 1].role = "assistant"
                         /\ msgs[n + 1].content = <<task_text(t)>>
                         /\ msgs[n + 1].metrics =
                                [usage |-> "us1", timings |-> "ti1", created |-> "cr1",
                                 id |-> "id1", model |-> "mo1",
                                 system_fingerprint |-> "fp1"]
                    ELSE chats' = chats ]_vars

\* C26 witness: the answer to a prompt that names a document is in the
\* store behind the display form of the prompt, with the envelope's metrics
C26_Witness ==
    \E t \in TaskIds :
        /\ ~tasks[t].set.stream_enabled
        /\ tasks[t].outcome = "completed"
        /\ ~cancellation_token
        /\ LET msgs == stored_messages(tasks[t]) IN
           /\ Len(msgs) = 3
           /\ msgs[2].content # tasks[t].msg_content
           /\ msgs[2].content # tasks[t].req[1].messages[2].content
           /\ msgs[3].metrics.timings = "ti1"

(***************************************************************************)
(* The frame of an edit (lib.rs on_edit_save)                              *)
(***************************************************************************)

\* the t-th completion was started by a save of the edit box with the text
\* of EditInputs in it
started_by_edit(t) ==
    LET sent == tasks[t].req[1].messages IN
    sent # <<>> /\ sent[Len(sent)].content \in EditInputs

\* the step of a save at index idx: the messages below idx are as they
\* were, the message at idx has its role and the text of the edit box, and
\* nothing follows it
edit_frame(idx) ==
    LET old == current_messages
        new == messages_of(chats', active_chat_id)
    IN  /\ Len(new) = idx + 1
        /\ \A k \in 1..idx : new[k] = old[k]
        /\ new[idx + 1].role = old[idx + 1].role
        /\ new[idx + 1].content = edit_buffer
        /\ tasks'[Len(tasks')].req[1].messages = new

MaxFirstTitleTasks == 2
MaxFirstTitleUuid == 2

\* a line of n characters
line_of(n) == [k \in 1..n |-> "a"]

\* prompts: a short line, a line of exactly TitleChars characters, a longer
\* one, two lines, a long line followed by a second line, an empty first line
TitleInputs ==
    { <<"h", "i">>, line_of(TitleChars), line_of(TitleChars + 1),
      <<"h", "\n", "i">>, line_of(TitleChars + 1) \o <<"\n", "i">>, <<"\n", "i">> }

InitFirstTitle ==
    /\ InitCommon
    /\ build = "app"
    /\ documents = <<>>
    /\ quota = "ok"
    /\ \E b \in BOOLEAN : settings = SettingsLoaded(b)
    /\ wire = [t \in 1..MaxFirstTitleTasks |-> store_streams(t)]
    /\ lineChunks = TRUE
    /\ StorageWritten

NextFirstTitle ==
    \/ \E m \in TitleInputs : run_chat(m)
    \/ \E t \in TaskIds : DocStep(t)
    \/ nextUuid <= MaxFirstTitleUuid /\ on_new_chat
    \/ \E id \in SessionIds : on_select_chat(id)

SpecFirstTitle == InitFirstTitle /\ [][NextFirstTitle]_vars

\* the text of m before its first line break
before_break(m) ==
    LET breaks == { k \in 1..Len(m) : m[k] = "\n" } IN
    IF breaks = {} THEN m
    ELSE SubSeq(m, 1, (CHOOSE k \in breaks : \A j \in breaks : k <= j) - 1)

\* C28: a send into a session of the collection that holds only its system
\* message sets the
\* title of the session, in the step of the handler, to the first line of
\* the prompt when the line has at most 40 characters, and to its first 40
\* characters followed by "..." when it has more; a send into a session
\* with a longer transcript leaves the title as it is.
C28_TitleFromFirstMessage ==
    [][ \A m \in TitleInputs :
          run_chat(m) =>
              LET i == position(chats, active_chat_id)
                  line == before_break(m)
              IN  i # 0 =>
                    IF Len(chats[i].messages) = 1
                    THEN /\ chats'[i].messages =
                               <<chats[i].messages[1], Message("user", m)>>
                         /\ Len(line) <= 40 => chats'[i].title = line
                         /\ Len(line) > 40 =>
                               chats'[i].title = SubSeq(line, 1, 40) \o <<".", ".", ".">>
                    ELSE chats'[i].title = chats[i].title ]_vars

\* C28 witness: one session is titled with a cut line and the ellipsis, and
\* a second prompt sent into it has left that title
C28_Witness ==
    \E i \in 1..Len(chats) :
        /\ Len(chats[i].messages) >= 4
        /\ Len(chats[i].title) = 43
        /\ SubSeq(chats[i].title, 1, 40) = line_of(40)
        /\ SubSeq(chats[i].title, 41, 43) = <<".", ".", ".">>

(***************************************************************************)
(* The metrics of a streamed response (app.rs run_chat)                    *)
(***************************************************************************)

MetricsFields == {"usage", "timings", "id", "created", "model", "system_fingerprint"}

\* the value of a field in the last of the lines ls whose record parses and
\* supplies the field, None when no record does
RECURSIVE latest_of(_, _)
latest_of(ls, field) ==
    IF ls = <<>> THEN None
    ELSE LET l == trim(ls[Len(ls)])
             json == from_str_StreamResponse(Tail(l))
         IN  IF /\ starts_with_data(l)
                /\ ~is_done_line(l)
                /\ json.ok
                /\ json[field] # None
             THEN json[field]
             ELSE latest_of(SubSeq(ls, 1, Len(ls) - 1), field)

\* C29: while app.rs decodes a stream, each of the six holders has the value
\* of its field in the last decoded record that supplied it.
C29_HoldersKeepLatest ==
    \A t \in TaskIds :
        (build = "app" /\ tasks[t].set.stream_enabled) =>
            \A f \in MetricsFields :
                tasks[t].final[f] = latest_of(complete_lines(consumed(tasks[t])), f)

(***************************************************************************)
(* What is left in the buffer when the stream ends (app.rs run_chat)       *)
(***************************************************************************)

MaxResidualLines == 2

\* what may follow the last line break: nothing, a record with timings, a
\* record with every field, text that is no JSON, a sentinel line and a
\* data line without their line breaks
ResidualTails ==
    { <<>>, <<"{t}">>, <<"{m}">>, <<"??">>, <<"data: ", "[DONE]">>,
      <<"data: ", "{m}">> }

ResidualStreams ==
    { s \o tl : s \in lines_up_to(MaxResidualLines), tl \in ResidualTails }

InitResidual ==
    /\ InitCommon
    /\ build = "app"
    /\ documents = <<>>
    /\ quota = "ok"
    /\ settings = SettingsLoaded(TRUE)
    /\ \E s \in ResidualStreams : wire = <<{s}>>
    /\ lineChunks = TRUE
    /\ StorageWritten

NextResidual ==
    \/ run_chat(<<"h", "i">>)
    \/ \E t \in TaskIds : app_request_ok(t)
    \/ \E t \in TaskIds : \E k \in 1..Len(tasks[t].rest) : app_chunk(t, k)
    \/ \E t \in TaskIds : app_stream_end(t)

SpecResidual == InitResidual /\ [][NextResidual]_vars

\* C30: when the stream of a completion has ended, the assistant message in
\* the store has, for usage and for timings, the value of the record in the
\* residual buffer when the buffer holds a record that supplies it, and
\* otherwise the value of the last decoded line that did; the other four
\* fields are those of the holders; the task has ended and the loading flag
\* is down, whether or not the buffer could be parsed.
C30_ResidualMerged ==
    \A t \in TaskIds :
        tasks[t].outcome = "completed" =>
            LET T == tasks[t]
                msgs == stored_messages(T)
                last == msgs[Len(msgs)]
                residual == from_str_StreamResponse(T.buffer)
                lines == complete_lines(consumed(T))
                merged(f) == IF T.buffer # <<>> /\ residual.ok /\ residual[f] # None
                             THEN residual[f]
                             ELSE latest_of(lines, f)
            IN  /\ T.pc = "done"
                /\ ~is_loading
                /\ last.role = "assistant"
                /\ last.metrics.usage = merged("usage")
                /\ last.metrics.timings = merged("timings")
                /\ \A f \in MetricsFields \ {"usage", "timings"} :
                      last.metrics[f] = T.final[f]

\* C30 witness: a line supplied usage and timings, the residual buffer held
\* a record with other timings, and the stored message has the usage of the
\* line and the timings of the residual record
C30_Witness ==
    \E t \in TaskIds :
        /\ tasks[t].outcome = "completed"
        /\ tasks[t].buffer = <<"{t}">>
        /\ tasks[t].final.timings = "ti1"
        /\ LET msgs == stored_messages(tasks[t]) IN
           /\ msgs[Len(msgs)].metrics.usage = "us1"
           /\ msgs[Len(msgs)].metrics.timings = "ti2"

\* a residual buffer that does not parse: the metrics of the lines stay
C30_UnparsedResidualSeen ==
    \E t \in TaskIds :
        /\ tasks[t].outcome = "completed"
        /\ tasks[t].buffer = <<"data: ", "{m}">>
        /\ stored_messages(tasks[t])[Len(stored_messages(tasks[t]))].metrics.timings = "ti1"

(***************************************************************************)
(* Lines that are no events (app.rs run_chat, lib.rs run_chat_completion)  *)
(***************************************************************************)

MaxMalformedLines == 3

\* a delta, a payload that is no JSON, a record without the prefix, a delta
\* line behind a blank, a record with metrics and no text
MalformedLines ==
    { DeltaLine(<<"a">>),
      <<"data: ", "??", "\n">>,
      <<"{c:", "b", "}", "\n">>,
      <<" ">> \o DeltaLine(<<"x">>),
      <<"data: ", "{m}", "\n">> }

RECURSIVE malformed_up_to(_)
malformed_up_to(n) ==
    IF n = 0 THEN { <<>> }
    ELSE malformed_up_to(n - 1)
           \cup { s \o l : s \in malformed_up_to(n - 1), l \in MalformedLines }

InitMalformed ==
    /\ InitCommon
    /\ documents = <<>>
    /\ quota = "ok"
    /\ settings = SettingsLoaded(TRUE)
    /\ \E s \in malformed_up_to(MaxMalformedLines) : wire = <<{s}>>
    /\ lineChunks = TRUE
    /\ StorageWritten

NextMalformed ==
    \/ run_chat(<<"h", "i">>)
    \/ perform_send(<<"h", "i">>)
    \/ \E t \in TaskIds : StreamStep(t)

SpecMalformed == InitMalformed /\ [][NextMalformed]_vars

\* the lines the decoder of task t cuts from its buffer in this step
new_lines(t) ==
    LET before == complete_lines(consumed(tasks[t]))
        after == complete_lines(consumed(tasks'[t]))
    IN  SubSeq(after, Len(before) + 1, Len(after))

\* the line as it stands is an event: it starts with the prefix and its
\* payload is a record
is_event(line) ==
    starts_with_data(line) /\ from_str_StreamResponse(Tail(line)).ok

\* the line is an event as it stands, or with the white space around it
\* removed
event(line, trimmed) == is_event(IF trimmed THEN trim(line) ELSE line)

\* the delta texts of the lines that are events
RECURSIVE event_deltas(_, _)
event_deltas(ls, trimmed) ==
    IF ls = <<>> THEN <<>>
    ELSE LET l == Head(ls)
             json == from_str_StreamResponse(Tail(trim(l)))
         IN  (IF event(l, trimmed) /\ json.choices # <<>> /\ json.choices[1].some
              THEN <<json.choices[1].val>> ELSE <<>>)
               \o event_deltas(Tail(ls), trimmed)

\* one chunk decoded by task t: the assistant message grows by the deltas
\* of the events among the new lines, in the task and in the store, with one
\* publish for each; without such a delta the collection is not written, and
\* without an event the holders keep their values
lines_dropped(t, trimmed) ==
    (/\ tasks[t].pc = "streaming"
     /\ tasks'[t].pc = "streaming"
     /\ tasks'[t].arrived > tasks[t].arrived) =>
        LET L == new_lines(t)
            ds == event_deltas(L, trimmed)
            content == last_content(tasks[t].history) \o concat(ds)
        IN  /\ last_content(tasks'[t].history) = content
            /\ Len(tasks'[t].pubs) = Len(tasks[t].pubs) + Len(ds)
            /\ ds # <<>> => last_content(messages_of(chats', tasks[t].cid)) = content
            /\ ds = <<>> => chats' = chats
            /\ (\A i \in 1..Len(L) : ~event(L[i], trimmed)) => tasks'[t].final = tasks[t].final

\* C31: a line that does not start with `data: `, or whose payload is no
\* record, changes neither the assistant message nor the holders and is not
\* published; the deltas of the well-formed lines behind it are merged.
C31_MalformedLineDropped ==
    [][ \A t \in TaskIds : lines_dropped(t, FALSE) ]_vars

\* C31 (amended): a line that, with the white space around it removed, does
\* not start with `data: `, or whose payload is no record, changes neither
\* the assistant message nor the holders and is not published; the deltas of
\* the well-formed lines behind it are merged.
C31_TrimmedLineDropped ==
    [][ \A t \in TaskIds : lines_dropped(t, TRUE) ]_vars

\* C31 witness: a payload that is no JSON and a record without the prefix
\* have been cut from the buffer, then a delta line, and the message in the
\* store is the text of that delta
C31_Witness ==
    \E t \in TaskIds :
        /\ complete_lines(consumed(tasks[t]))
             = << <<"data: ", "??">>, <<"{c:", "b", "}">>, <<"data: ", "{c:", "a", "}">> >>
        /\ tasks[t].pubs = << <<"a">> >>
        /\ last_content(stored_messages(tasks[t])) = <<"a">>

(***************************************************************************)
(* Stop and a later send (cancellation_token, reset at every entry)        *)
(***************************************************************************)

\* completion t was stopped while it streamed: the next completion was
\* started in the same session with a request that carries the text t had
\* streamed by then.  The send is enabled only while is_loading is false,
\* and a chunk is decoded only while the flag is down, so Stop was pressed
\* after a chunk of t and before the next send.
stopped_while_streaming(t) ==
    /\ t + 1 \in TaskIds
    /\ tasks[t + 1].cid = tasks[t].cid
    /\ tasks[t].arrived >= 1
    /\ LET sent == tasks[t + 1].req[1].messages IN
       \E i \in 1..Len(sent) :
          /\ sent[i].role = "assistant"
          /\ sent[i].content # <<>>

\* C32: a completion stopped while it streamed appends no delta text any
\* more, neither to its own message nor by a publish, whether or not a later
\* completion has been started.
C32_StoppedStaysStopped ==
    [][ \A t \in TaskIds :
          stopped_while_streaming(t) =>
             /\ last_content(tasks'[t].history) = last_content(tasks[t].history)
             /\ tasks'[t].pubs = tasks[t].pubs ]_vars

\* C33: the loading flag is up as long as the completion started last has
\* not finished: the step in which an earlier completion finishes leaves the
\* flag up while the completion started last is in flight.
C33_LateFinishKeepsLoading ==
    [][ \A t \in TaskIds :
          (/\ t < Len(tasks)
           /\ in_flight(Len(tasks))
           /\ is_loading
           /\ in_flight(t)
           /\ tasks'[t].pc = "done") => is_loading' ]_vars

(***************************************************************************)
(* Publishes on a captured collection (app.rs update, lib.rs publish)      *)
(***************************************************************************)

MaxPublishUuid == 3

\* one streaming completion, and the session handlers while it runs
InitPublish ==
    /\ InitCommon
    /\ documents = <<>>
    /\ quota = "ok"
    /\ settings = SettingsLoaded(TRUE)
    /\ wire = <<store_streams(1)>>
    /\ lineChunks = TRUE
    /\ StorageWritten

NextPublish ==
    \/ run_chat(<<"h", "i">>)
    \/ perform_send(<<"h", "i">>)
    \/ \E t \in TaskIds : StreamStep(t)
    \/ nextUuid <= MaxPublishUuid /\ on_new_chat
    \/ \E id \in SessionIds : on_select_chat(id)
    \/ \E id \in SessionIds : on_delete_chat(id)
    \/ nextUuid <= MaxPublishUuid /\ on_settings_save([settings EXCEPT !.system_prompt = OtherPrompt])
    \/ nextUuid <= MaxPublishUuid /\ on_clear_all_chats(TRUE)
    \/ nextUuid <= MaxPublishUuid /\ lib_on_new_chat
    \/ \E id \in SessionIds : lib_on_select_chat(id)
    \/ \E id \in SessionIds : nextUuid <= MaxPublishUuid /\ lib_on_delete_chat(id, TRUE)
    \/ nextUuid <= MaxPublishUuid /\ lib_on_clear_all_chats(TRUE)

SpecPublish == InitPublish /\ [][NextPublish]_vars

ids_of(list) == { list[i].id : i \in 1..Len(list) }

\* the step is a publish of completion t: the task moves and the collection
\* is written
publish_of(t) ==
    /\ t \in TaskIds
    /\ tasks'[t] # tasks[t]
    /\ chats' # chats

\* C34: a session that has been removed from the collection stays absent:
\* the only id a step adds to the collection is the fresh id of a session
\* created in that step.
C34_RemovedStaysAbsent ==
    [][ \A id \in ids_of(chats') \ ids_of(chats) :
          /\ id = nextUuid
          /\ nextUuid' = nextUuid + 1
          /\ \A t \in TaskIds : ~publish_of(t) ]_vars

\* the session with this id, <<>> when the collection does not hold it
session_of(list, id) ==
    LET i == position(list, id) IN IF i = 0 THEN <<>> ELSE list[i]

\* C35: a publish of a completion for session A leaves every other session
\* of the collection as it is, transcript and title, and in the collection:
\* also the sessions created after A's send.
C35_PublishTouchesOwnSession ==
    [][ \A t \in TaskIds :
          publish_of(t) =>
             \A id \in ids_of(chats) \ {tasks[t].cid} :
                session_of(chats', id) = session_of(chats, id) ]_vars

\* the line is a record with an empty choices list
has_no_choices(line) ==
    LET l == trim(line)
        json == from_str_StreamResponse(Tail(l))
    IN  starts_with_data(l) /\ json.ok /\ json.choices = <<>>

\* C36: a record with an empty choices list does not end the completion:
\* the decoder that has cut such a line from its buffer is still in its
\* stream loop, and the assistant message has grown by the deltas of the
\* other lines of the chunk only.
C36_EmptyChoicesTolerated ==
    [][ \A t \in TaskIds :
          (/\ tasks[t].pc = "streaming"
           /\ tasks'[t].arrived > tasks[t].arrived
           /\ ~tasks'[t].broke
           /\ \E i \in 1..Len(new_lines(t)) : has_no_choices(new_lines(t)[i])) =>
             /\ tasks'[t].pc = "streaming"
             /\ last_content(tasks'[t].history)
                  = last_content(tasks[t].history) \o concat(event_deltas(new_lines(t), TRUE)) ]_vars

(***************************************************************************)
(* Every handler that writes a transcript                                  *)
(***************************************************************************)

MaxTranscriptTasks == 2
MaxTranscriptUuid == 2

InitTranscripts ==
    /\ InitCommon
    /\ documents = <<>>
    /\ quota = "ok"
    /\ \E b \in BOOLEAN : settings = SettingsLoaded(b)
    /\ wire = [t \in 1..MaxTranscriptTasks |-> store_streams(t)]
    /\ lineChunks = TRUE
    /\ StorageWritten

NextTranscripts ==
    \/ run_chat(<<"h", "i">>)
    \/ perform_send(<<"h", "i">>)
    \/ \E t \in TaskIds : TaskStep(t)
    \/ nextUuid <= MaxTranscriptUuid /\ on_new_chat
    \/ \E id \in SessionIds : on_select_chat(id)
    \/ \E id \in SessionIds : on_delete_chat(id)
    \/ nextUuid <= MaxTranscriptUuid
          /\ on_settings_save([settings EXCEPT !.system_prompt = OtherPrompt])
    \/ nextUuid <= MaxTranscriptUuid /\ on_clear_all_chats(TRUE)
    \/ nextUuid <= MaxTranscriptUuid /\ lib_on_new_chat
    \/ \E id \in SessionIds : lib_on_select_chat(id)
    \/ \E id \in SessionIds : nextUuid <= MaxTranscriptUuid /\ lib_on_delete_chat(id, TRUE)
    \/ nextUuid <= MaxTranscriptUuid /\ lib_on_clear_all_chats(TRUE)
    \/ \E idx \in EditIndexes : on_edit_click(idx)
    \/ \E value \in EditInputs : on_edit_input(value)
    \/ on_edit_cancel
    \/ \E idx \in EditIndexes : on_edit_save(idx)

SpecTranscripts == InitTranscripts /\ [][NextTranscripts]_vars

\* C37: in every state every session of the collection has a transcript
\* that is not empty and starts with a system message.
C37_TranscriptStartsWithSystem ==
    \A i \in 1..Len(chats) :
        /\ chats[i].messages # <<>>
        /\ chats[i].messages[1].role = "system"

\* C37 witness: two sessions, one of them holding a conversation with an
\* answer, after a settings save has put the new prompt into a transcript or
\* an edit has been saved and sent
C37_Witness ==
    /\ \E i, j \in 1..Len(chats) :
          /\ i # j
          /\ Len(chats[i].messages) >= 3
          /\ chats[i].messages[1].role = "system"
    /\ \/ \E j \in 1..Len(chats) : chats[j].messages[1].content = OtherPrompt
       \/ \E t \in TaskIds : started_by_edit(t)

\* the transcript is the system message alone
only_system(c) == Len(c.messages) = 1 /\ c.messages[1].role = "system"

\* C38 (app.rs): a session whose transcript is only its system message is
\* in the collection only as the active session, so the collection holds at
\* most one such session.
C38_EmptySessionIsActive ==
    build = "app" =>
        /\ \A i \in 1..Len(chats) : only_system(chats[i]) => chats[i].id = active_chat_id
        /\ Cardinality({ i \in 1..Len(chats) : only_system(chats[i]) }) <= 1

\* C38 witness: behind the empty active session the collection holds a
\* session with a conversation and its answer
C38_Witness ==
    /\ build = "app"
    /\ Len(chats) >= 2
    /\ \E i \in 1..Len(chats) : only_system(chats[i]) /\ chats[i].id = active_chat_id
    /\ \E j \in 1..Len(chats) : Len(chats[j].messages) >= 3

(***************************************************************************)
(* Saving the settings (app.rs on_settings_save)                           *)
(***************************************************************************)

\* what the settings modal hands over: the prompt kept or changed, the
\* stream switch kept or changed
SaveInputs ==
    { [settings EXCEPT !.system_prompt = pr, !.stream_enabled = b] :
         pr \in Prompts \cup {settings.system_prompt}, b \in BOOLEAN }

InitSave ==
    /\ InitCommon
    /\ build = "app"
    /\ documents = <<>>
    /\ quota = "ok"
    /\ settings = SettingsLoaded(FALSE)
    /\ wire = <<store_streams(1)>>
    /\ lineChunks = TRUE
    /\ StorageWritten

NextSave ==
    \/ run_chat(<<"h", "i">>)
    \/ \E t \in TaskIds : DocStep(t)
    \/ on_new_chat
    \/ \E id \in SessionIds : on_select_chat(id)
    \/ \E id \in SessionIds : on_delete_chat(id)
    \/ \E new_settings \in SaveInputs : on_settings_save(new_settings)

SpecSave == InitSave /\ [][NextSave]_vars

\* C39: a settings save with a changed system prompt writes the new prompt
\* into the system message of the active session when that session holds
\* only its system message, and otherwise puts a fresh session with the new
\* prompt in front of the collection and makes it active; every other
\* session is as before.  A save with the prompt unchanged changes no
\* session and not the active id.
C39_SettingsSaveFrame ==
    [][ \A new_settings \in SaveInputs :
          on_settings_save(new_settings) =>
             LET i == position(chats, active_chat_id) IN
             IF new_settings.system_prompt = settings.system_prompt
             THEN chats' = chats /\ active_chat_id' = active_chat_id
             ELSE IF i # 0 /\ only_system(chats[i])
             THEN /\ active_chat_id' = active_chat_id
                  /\ Len(chats') = Len(chats)
                  /\ chats'[i].id = chats[i].id
                  /\ chats'[i].title = chats[i].title
                  /\ only_system(chats'[i])
                  /\ chats'[i].messages[1].content = new_settings.system_prompt
                  /\ \A j \in 1..Len(chats) : j # i => chats'[j] = chats[j]
             ELSE /\ Len(chats') = Len(chats) + 1
                  /\ chats'[1].id \notin ids_of(chats)
                  /\ chats'[1].title = NewChatTitle
                  /\ only_system(chats'[1])
                  /\ chats'[1].messages[1].content = new_settings.system_prompt
                  /\ active_chat_id' = chats'[1].id
                  /\ \A j \in 1..Len(chats) : chats'[j + 1] = chats[j] ]_vars

\* C39 witness: the prompt was changed twice, once behind a conversation
\* (a session was put in front) and once in the empty session that was
\* active then (its system message was rewritten)
C39_Witness ==
    /\ Len(chats) = 2
    /\ chats[1].id = active_chat_id
    /\ chats[1].id = 2
    /\ chats[1].messages = <<Message("system", HelpfulAssistantDot)>>
    /\ settings.system_prompt = HelpfulAssistantDot
    /\ Len(chats[2].messages) >= 3
    /\ settings.stream_enabled

====
